---- MODULE Spec2Model ----
(***************************************************************************)
(* lua-intf: class binding metatables, member lookup / assignment          *)
(* metamethods, typed object retrieval and bound object lifetime.          *)
(*                                                                         *)
(* The VM is modelled by its tables (registry, module table, the three     *)
(* metatables of every bound class and their getter / setter sub-tables),  *)
(* by the userdata blocks it owns and by the native objects behind them.   *)
(***************************************************************************)
EXTENDS Integers, Sequences, FiniteSets, TLC

VARIABLES tables, decl, nmem, objs, statics, heap, last, call, refs

vars == <<tables, decl, nmem, objs, statics, heap, last, call, refs>>

\* the state of the bound-call model and of the LuaRef model
aux == <<call, refs>>

(***************************************************************************)
(* Bounds                                                                  *)
(***************************************************************************)
\* number of member registrations (addVariable, addFunction, ...) explored
MaxMembers == 1
\* native field values range over 0..MaxVal
MaxVal == 1
\* number of userdata blocks created in the lifetime model
MaxBlocks == 2
\* number of native objects created in the lifetime model
MaxObjects == 1

(***************************************************************************)
(* VM values.  Every value is a record of the same shape:                  *)
(*   t : dynamic type, a/b/c/d : payload strings, n : payload number       *)
(***************************************************************************)
V(t, a, b, c, d, n, m) == [t |-> t, a |-> a, b |-> b, c |-> c, d |-> d, n |-> n, m |-> m]

Nil == V("nil", "", "", "", "", 0, 0)
\* what lua_type reports for an index beyond the top of the stack
None == V("none", "", "", "", "", 0, 0)
Str(s) == V("str", s, "", "", "", 0, 0)
Num(i) == V("num", "", "", "", "", i, 0)
\* a table is identified by its role and the name it was created for
Tbl(kind, name) == V("table", kind, name, "", "", 0, 0)
\* light userdata: a bare pointer (identity tokens, the signature key)
Lud(kind, cls) == V("lud", kind, cls, "", "", 0, 0)
\* C closure: entry point fn, template class cls, role, upvalue name, IS_CONST
Cfn(fn, cls, role, name, isConst) == V("cfn", fn, cls, role, name, IF isConst THEN 1 ELSE 0, 0)
\* full userdata: metatable (kind, name; kind "" = no metatable), shape of the
\* block, the native object m_ptr points to, and the block's slot in the heap
Ud(mtKind, mtName, shape, ptr, block) == V("ud", mtKind, mtName, shape, "", ptr, block)

IsNil(v) == v.t = "nil"
IsTable(v) == v.t = "table"
\* lua_isuserdata is true for full and light userdata
IsUserdata(v) == v.t \in {"ud", "lud"}
IsCFunction(v) == v.t = "cfn"

Registry == Tbl("registry", "")
Module == Tbl("module", "")

EmptyTable == <<>>

(***************************************************************************)
(* Raw table access                                                        *)
(***************************************************************************)
RawGet(tb, t, k) ==
    IF t \in DOMAIN tb /\ k \in DOMAIN tb[t] THEN tb[t][k] ELSE Nil

RawSet(tb, t, k, v) == [tb EXCEPT ![t] = (k :> v) @@ @]

NewTables(tb, ts) == [t \in ts |-> EmptyTable] @@ tb

\* metatable of a value: tables and userdata carry their own
MetaOf(tb, v) ==
    CASE v.t = "ud" -> IF v.a = "" THEN None ELSE Tbl(v.a, v.b)
      [] v.t = "table" ->
            IF v.a \in {"class", "const", "static"} THEN v
            ELSE IF v.a = "forged" THEN Tbl("forgedmeta", "") ELSE None
      [] v.t = "str" -> Tbl("stringmeta", "")
      [] OTHER -> None

(***************************************************************************)
(* Identity tokens                                                         *)
(***************************************************************************)
classID(T) == Lud("classID", T)
staticID(T) == Lud("staticID", T)
constID(T) == Lud("constID", T)
signature == Lud("signature", "")

getClassID(T, is_const) == IF is_const THEN constID(T) ELSE classID(T)

(***************************************************************************)
(* Bound closures                                                          *)
(***************************************************************************)
\* CppBindClassMetaMethod::index / newIndex, stored as plain C functions
IndexFn == Cfn("index", "", "", "", FALSE)
NewIndexFn == Cfn("newIndex", "", "", "", FALSE)
\* LuaRef::createFunctionWithArgs(L, &errorReadOnly, name)
ErrReadOnlyFn(name) == Cfn("errorReadOnly", "", "", name, FALSE)
\* LuaRef::createFunctionWithArgs(L, &errorConstMismatch, name)
ErrConstFn(name) == Cfn("errorConstMismatch", "", "", name, FALSE)
\* &CppBindClassDestructor<T, IS_CONST>::call
DestructorFn(T, is_const) == Cfn("Destructor", T, "", "", is_const)
\* &CppBindClassMethod<T, FN>::call with the callable in upvalue 1;
\* role tells what the callable does to the object: "get", "set", "mutate"
MethodFn(T, role, name, is_const) == Cfn("ClassMethod", T, role, name, is_const)
\* &CppBindClassVariable<T, V>::get / set with the member pointer in upvalue 1
VarGetFn(T, name) == Cfn("ClassVariableGet", T, "get", name, TRUE)
VarSetFn(T, name) == Cfn("ClassVariableSet", T, "set", name, FALSE)
\* static members: CppBindVariable<V>::get / set, CppBindMethod<FN>::call
StaticVarGetFn(T, name) == Cfn("VariableGet", T, "get", name, FALSE)
StaticVarSetFn(T, name) == Cfn("VariableSet", T, "set", name, FALSE)
StaticMethodFn(T, role, name) == Cfn("Method", T, role, name, FALSE)

(***************************************************************************)
(* CppBindClassBase::buildMetaTable                                        *)
(***************************************************************************)
\* the "___type" strings: prefix and class name kept apart
TypeName(prefix, name) == V("str", prefix, name, "", "", 0, 0)

buildMetaTable(tb, parent, name, static_id, clazz_id, const_id) ==
    LET ref == RawGet(tb, parent, Str(name)) IN
    IF ~IsNil(ref) THEN [built |-> FALSE, tb |-> tb, meta |-> ref]
    ELSE
      LET clazz_const == Tbl("const", name)
          clazz == Tbl("class", name)
          clazz_static == Tbl("static", name)
          getters == Tbl("getters", name)
          csetters == Tbl("csetters", name)
          setters == Tbl("setters", name)
          sgetters == Tbl("sgetters", name)
          ssetters == Tbl("ssetters", name)
          t0 == NewTables(tb, {clazz_const, clazz, clazz_static, getters,
                               csetters, setters, sgetters, ssetters})
          constFields ==
              (Str("__index") :> IndexFn) @@
              (Str("__newindex") :> NewIndexFn) @@
              (Str("___getters") :> getters) @@
              (Str("___setters") :> csetters) @@
              (Str("___type") :> TypeName("const_class", name)) @@
              (Str("___const") :> clazz_const) @@
              (signature :> const_id)
          clazzFields ==
              (Str("__index") :> IndexFn) @@
              (Str("__newindex") :> NewIndexFn) @@
              (Str("___getters") :> RawGet([t0 EXCEPT ![clazz_const] = constFields],
                                           clazz_const, Str("___getters"))) @@
              (Str("___setters") :> setters) @@
              (Str("___type") :> TypeName("class", name)) @@
              (Str("___const") :> clazz_const) @@
              (signature :> clazz_id)
          staticFields ==
              (Str("__index") :> IndexFn) @@
              (Str("__newindex") :> NewIndexFn) @@
              (Str("___getters") :> sgetters) @@
              (Str("___setters") :> ssetters) @@
              (Str("___type") :> TypeName("static_class", name)) @@
              (Str("___class") :> clazz) @@
              (Str("___const") :> clazz_const) @@
              (Str("___parent") :> parent) @@
              (signature :> static_id)
          t1 == [t0 EXCEPT ![clazz_const] = constFields,
                           ![clazz] = clazzFields,
                           ![clazz_static] = staticFields]
          t2 == RawSet(t1, Registry, clazz_id, clazz)
          t3 == RawSet(t2, Registry, const_id, clazz_const)
          t4 == RawSet(t3, Registry, static_id, clazz_static)
          t5 == RawSet(t4, parent, Str(name), clazz_static)
      IN [built |-> TRUE, tb |-> t5, meta |-> clazz_static]

\* the three "___super" links written after a fresh build
LinkSuper(tb, meta, super) ==
    RawSet(RawSet(RawSet(tb, meta, Str("___super"), super),
                  RawGet(tb, meta, Str("___class")), Str("___super"),
                  RawGet(tb, super, Str("___class"))),
           RawGet(tb, meta, Str("___const")), Str("___super"),
           RawGet(tb, super, Str("___const")))

\* r is what buildMetaTable returned
WithSuper(r, super_static_id) ==
    IF r.built
    THEN [r EXCEPT !.tb = LinkSuper(r.tb, r.meta, RawGet(r.tb, Registry, super_static_id))]
    ELSE r

buildMetaTableSuper(tb, parent, name, static_id, clazz_id, const_id, super_static_id) ==
    WithSuper(buildMetaTable(tb, parent, name, static_id, clazz_id, const_id),
              super_static_id)

\* the two "__gc" entries written by bind and extend after a fresh build
SetGc(tb, meta, T) ==
    RawSet(RawSet(tb, RawGet(tb, meta, Str("___class")), Str("__gc"), DestructorFn(T, FALSE)),
           RawGet(tb, meta, Str("___const")), Str("__gc"), DestructorFn(T, TRUE))

WithGc(r, T) == IF r.built THEN [r EXCEPT !.tb = SetGc(r.tb, r.meta, T)] ELSE r

\* CppBindClass<T>::bind
bind(tb, parent_meta, name, T) ==
    WithGc(buildMetaTable(tb, parent_meta, name, staticID(T), classID(T), constID(T)), T)

\* CppBindClass<T>::extend
extend(tb, parent_meta, name, T, super_type_id) ==
    WithGc(buildMetaTableSuper(tb, parent_meta, name, staticID(T), classID(T), constID(T),
                               super_type_id), T)

(***************************************************************************)
(* CppBindClassBase member stores (m_meta is the static metatable)         *)
(***************************************************************************)
Sub(tb, meta, f1, f2) == RawGet(tb, RawGet(tb, meta, Str(f1)), Str(f2))

setStaticGetter(tb, m_meta, name, getter) ==
    RawSet(tb, RawGet(tb, m_meta, Str("___getters")), Str(name), getter)

setStaticSetter(tb, m_meta, name, setter) ==
    RawSet(tb, RawGet(tb, m_meta, Str("___setters")), Str(name), setter)

setStaticReadOnly(tb, m_meta, name) ==
    setStaticSetter(tb, m_meta, name, ErrReadOnlyFn(name))

setMemberGetter(tb, m_meta, name, getter) ==
    RawSet(tb, Sub(tb, m_meta, "___class", "___getters"), Str(name), getter)

setMemberSetter(tb, m_meta, name, setter) ==
    LET err == ErrConstFn(name)
        t1 == RawSet(tb, Sub(tb, m_meta, "___class", "___setters"), Str(name), setter)
    IN RawSet(t1, Sub(t1, m_meta, "___const", "___setters"), Str(name), err)

\* as setMemberReadOnly, with the stub stored for mutable objects only
setMemberReadOnlyClassOnly(tb, m_meta, name) ==
    RawSet(tb, Sub(tb, m_meta, "___class", "___setters"), Str(name), ErrReadOnlyFn(name))

setMemberReadOnly(tb, m_meta, name) ==
    LET err == ErrReadOnlyFn(name)
        t1 == RawSet(tb, Sub(tb, m_meta, "___class", "___setters"), Str(name), err)
    IN RawSet(t1, Sub(t1, m_meta, "___const", "___setters"), Str(name), err)

setMemberFunction(tb, m_meta, name, proc, is_const) ==
    LET t1 == RawSet(tb, RawGet(tb, m_meta, Str("___class")), Str(name), proc)
    IN RawSet(t1, RawGet(t1, m_meta, Str("___const")), Str(name),
              IF is_const THEN proc ELSE ErrConstFn(name))


(***************************************************************************)
(* The VM stack, as a sequence with the top at the end                     *)
(***************************************************************************)
Top(s) == s[Len(s)]
Pop(s, k) == SubSeq(s, 1, Len(s) - k)
ReplaceTop(s, v) == Append(Pop(s, 1), v)
StackAt(s, i) == IF i \in 1..Len(s) THEN s[i] ELSE None

\* lua_typename(L, lua_type(L, index))
lua_typename(v) ==
    CASE v.t = "none" -> "no value"
      [] v.t = "ud" -> "userdata"
      [] v.t = "lud" -> "userdata"
      [] v.t = "cfn" -> "function"
      [] v.t = "str" -> "string"
      [] v.t = "num" -> "number"
      [] OTHER -> v.t

(***************************************************************************)
(* Outcome of a lua_CFunction: st is "ok", "error" (a raised VM error) or  *)
(* "ub" (the C API was used outside its contract).  w is the native world  *)
(* after the call, ran the native body that executed ("" if none).         *)
(***************************************************************************)
Ok(val, ran, w) == [st |-> "ok", msg |-> "", val |-> val, ran |-> ran, w |-> w,
                    exp |-> Nil, act |-> Nil]
Err(msg, w) == [st |-> "error", msg |-> msg, val |-> Nil, ran |-> "", w |-> w,
                exp |-> Nil, act |-> Nil]
Undefined(w) == [st |-> "ub", msg |-> "", val |-> Nil, ran |-> "", w |-> w,
                 exp |-> Nil, act |-> Nil]

(***************************************************************************)
(* CppObject::typeMismatchError, getExactObject, getObject                 *)
(* They return [st, msg, exp, act, sp]: sp is the stack height left.       *)
(***************************************************************************)
ObjOk(sp) == [st |-> "ok", msg |-> "", exp |-> Nil, act |-> Nil, sp |-> sp]
ObjErr(msg) == [st |-> "error", msg |-> msg, exp |-> Nil, act |-> Nil, sp |-> 0]
ObjUndefined == [st |-> "ub", msg |-> "", exp |-> Nil, act |-> Nil, sp |-> 0]

\* s ends with <expected_mt, actual_mt>; both are read with lua_rawget
typeMismatchError(tb, s, index) ==
    LET n == Len(s) IN
    IF ~IsTable(s[n - 1]) \/ ~IsTable(s[n]) THEN ObjUndefined
    ELSE LET expected == RawGet(tb, s[n - 1], Str("___type"))
             actual_t == RawGet(tb, s[n], Str("___type"))
             actual == IF actual_t.t = "str" THEN actual_t
                       ELSE Str(lua_typename(StackAt(s, index)))
         IN [st |-> "error", msg |-> "type mismatch", exp |-> expected,
             act |-> actual, sp |-> 0]

getExactObject(tb, stack, index, class_id) ==
    IF ~IsUserdata(StackAt(stack, index)) THEN ObjErr("expect userdata")
    ELSE LET s1 == Append(stack, RawGet(tb, Registry, class_id))
             omt == MetaOf(tb, stack[index])
             \* lua_getmetatable pushes nothing when there is no metatable
             s2 == IF omt = None THEN s1 ELSE Append(s1, omt)
             n == Len(s2)
         IN IF s2[n] = s2[n - 1] THEN ObjOk(n - 2)
            ELSE typeMismatchError(tb, s2, index)

RECURSIVE getObjectLoop(_, _, _)
getObjectLoop(tb, s, index) ==
    LET n == Len(s) IN
    IF s[n] = s[n - 1] THEN ObjOk(n - 2)
    ELSE IF ~IsTable(s[n]) THEN ObjUndefined
    ELSE LET super == RawGet(tb, s[n], Str("___super")) IN
         IF IsNil(super) THEN typeMismatchError(tb, s, index)
         ELSE getObjectLoop(tb, ReplaceTop(s, super), index)

getObject(tb, stack, index, base_id, is_const) ==
    IF ~IsUserdata(StackAt(stack, index)) THEN ObjErr("expect userdata")
    ELSE LET base_mt == RawGet(tb, Registry, base_id) IN
         IF ~IsTable(base_mt) THEN ObjErr("unknown class (null metatable)")
         ELSE LET s1 == Append(stack, base_mt)
                  omt == MetaOf(tb, stack[index])
                  \* lua_getmetatable pushes nothing when there is no metatable
                  s2 == IF omt = None THEN s1 ELSE Append(s1, omt)
              IN IF is_const THEN
                   IF ~IsTable(Top(s2)) THEN ObjUndefined
                   ELSE LET c == RawGet(tb, Top(s2), Str("___const")) IN
                        IF ~IsTable(c) THEN ObjErr("unknown class (null const metatable)")
                        ELSE getObjectLoop(tb, ReplaceTop(s2, c), index)
                 ELSE getObjectLoop(tb, s2, index)

\* the blocks this library allocates: CppObjectValue, CppObjectPtr, CppObjectSharedPtr
IsBoundBlock(v) == v.t = "ud" /\ v.c \in {"value", "ptr", "shared"}

\* as CppObject::get, with the const request always on
CppObjectGetAnyConst(tb, stack, index, T, is_const) ==
    LET r == getObject(tb, stack, index, getClassID(T, TRUE), TRUE) IN
    IF r.st = "ok" /\ ~IsBoundBlock(stack[index]) THEN ObjUndefined ELSE r

\* CppObject::get<T>: getObject<T>(L, index, is_const)->ptr()
CppObjectGet(tb, stack, index, T, is_const) ==
    LET r == getObject(tb, stack, index, getClassID(T, is_const), is_const) IN
    IF r.st = "ok" /\ ~IsBoundBlock(stack[index]) THEN ObjUndefined ELSE r


(***************************************************************************)
(* The native world w = [objs, statics, heap]                              *)
(*   objs[p]    the native object at address p: class, field x, whether it *)
(*              is alive, how often its destructor ran, shared use count   *)
(*   statics[T] the static data member of class T                          *)
(*   heap[b]    the userdata block b: its value, whether ~CppObject ran on *)
(*              it, whether the collector has finalized it                 *)
(***************************************************************************)
NextVal(x) == (x + 1) % (MaxVal + 1)

\* the pointee of a bound block can be used: it exists and was not destroyed
Alive(w, v) == v.n \in DOMAIN w.objs /\ w.objs[v.n].alive

ReadField(w, v) == w.objs[v.n].x

WriteField(w, v, x) == [w EXCEPT !.objs[v.n].x = x]

\* T::~T() on the native object at p
DestroyNative(w, p) ==
    [w EXCEPT !.objs[p].alive = FALSE, !.objs[p].dtors = @ + 1]

\* SP::~SP(): drop one owner, the last one destroys the pointee
ReleaseOwner(w, p) ==
    LET w1 == [w EXCEPT !.objs[p].owners = @ - 1] IN
    IF w1.objs[p].owners = 0 THEN DestroyNative(w1, p) ELSE w1

\* as the destructors of the blocks, with ~CppObjectPtr deleting its pointee
DestroyBodyOwning(w, v) ==
    CASE v.c \in {"value", "ptr"} -> DestroyNative(w, v.n)
      [] v.c = "shared" -> ReleaseOwner(w, v.n)
      [] OTHER -> w

\* the derived part of obj->~CppObject(): ~CppObjectValue destroys the contained
\* object, ~CppObjectSharedPtr destroys m_sp, ~CppObjectPtr does nothing
DestroyBody(w, v) ==
    CASE v.c = "value" -> DestroyNative(w, v.n)
      [] v.c = "shared" -> ReleaseOwner(w, v.n)
      [] OTHER -> w

MarkDestroyed(w, v) ==
    IF v.m \in DOMAIN w.heap THEN [w EXCEPT !.heap[v.m].destroyed = TRUE] ELSE w

Destroyed(w, v) == v.m \in DOMAIN w.heap /\ w.heap[v.m].destroyed

\* obj->~CppObject() through the virtual table.  On a block whose destructor
\* already ran the call is undefined: the build either dispatches to the derived
\* destructor again (again = TRUE) or only to the base one, which does nothing.
DestroyBlock(w, v, again) ==
    IF Destroyed(w, v) THEN (IF again THEN DestroyBody(w, v) ELSE w)
    ELSE MarkDestroyed(DestroyBody(w, v), v)

\* luaL_checkinteger on an argument
IsInteger(v) == v.t = "num"

(***************************************************************************)
(* The bound C closures, by entry point.  fn is the closure (its template  *)
(* class in fn.b, the role of its callable in fn.c, IS_CONST in fn.n),     *)
(* args the stack it is called with.                                       *)
(***************************************************************************)
\* CppBindClassMetaMethod::errorReadOnly
errorReadOnly(w) == Err("read-only", w)

\* CppBindClassMetaMethod::errorConstMismatch
errorConstMismatch(w) == Err("const mismatch", w)

\* the body of a callable bound with CppBindClassMethod, by what it does to *obj
InvokeMethod(w, obj, role, args) ==
    IF ~Alive(w, obj) THEN Undefined(w)
    ELSE CASE role = "set" -> Ok(Nil, "set", WriteField(w, obj, args[2].n))
           [] role = "mutate" -> Ok(Nil, "mutate", WriteField(w, obj, NextVal(ReadField(w, obj))))
           [] OTHER -> Ok(Num(ReadField(w, obj)), role, w)

FromObj(r, w) == [st |-> r.st, msg |-> r.msg, val |-> Nil, ran |-> "", w |-> w,
                  exp |-> r.exp, act |-> r.act]

\* CppBindClassVariable<T, V>::get
CppBindClassVariableGet(tb, w, fn, args) ==
    LET g == CppObjectGet(tb, args, 1, fn.b, TRUE) IN
    IF g.st # "ok" THEN FromObj(g, w)
    ELSE IF ~Alive(w, args[1]) THEN Undefined(w)
    ELSE Ok(Num(ReadField(w, args[1])), "get", w)

\* CppBindClassVariable<T, V>::set
CppBindClassVariableSet(tb, w, fn, args) ==
    LET g == CppObjectGet(tb, args, 1, fn.b, FALSE) IN
    IF g.st # "ok" THEN FromObj(g, w)
    ELSE IF ~IsInteger(StackAt(args, 2)) THEN Err("number expected", w)
    ELSE IF ~Alive(w, args[1]) THEN Undefined(w)
    ELSE Ok(Nil, "set", WriteField(w, args[1], args[2].n))

\* CppBindClassMethodBase<T, IS_PROXY, IS_CONST, ...>::call
CppBindClassMethodCall(tb, w, fn, args) ==
    LET g == CppObjectGet(tb, args, 1, fn.b, fn.n = 1) IN
    IF g.st # "ok" THEN FromObj(g, w)
    ELSE IF fn.c = "set" /\ ~IsInteger(StackAt(args, 2)) THEN Err("number expected", w)
    ELSE InvokeMethod(w, args[1], fn.c, args)

\* CppBindClassDestructor<T, IS_CONST>::call
CppBindClassDestructorCall(tb, w, fn, args, again) ==
    LET g == getExactObject(tb, args, 1, getClassID(fn.b, fn.n = 1)) IN
    IF g.st # "ok" THEN FromObj(g, w)
    ELSE IF ~IsBoundBlock(args[1]) THEN Undefined(w)
    ELSE Ok(Nil, "destroy", DestroyBlock(w, args[1], again))

\* as the getter, pushing the value the variable had when it was bound
CppBindVariableGetCached(w, fn) == Ok(Num(0), "sget", w)

\* the getter of a static data member: pushes *ptr
CppBindVariableGet(w, fn) == Ok(Num(w.statics[fn.b]), "sget", w)

\* the setter of a static data member: *ptr = LuaType<T>::get(L, 1)
CppBindVariableSet(w, fn, args) ==
    IF ~IsInteger(StackAt(args, 1)) THEN Err("number expected", w)
    ELSE Ok(Nil, "sset", [w EXCEPT !.statics[fn.b] = args[1].n])

\* CppBindMethod<FN>::call on a static function, getter or setter
CppBindMethodCall(w, fn, args) ==
    IF fn.c = "set"
    THEN IF ~IsInteger(StackAt(args, 1)) THEN Err("number expected", w)
         ELSE Ok(Nil, "sset", [w EXCEPT !.statics[fn.b] = args[1].n])
    ELSE Ok(Num(w.statics[fn.b]), IF fn.c = "get" THEN "sget" ELSE "sfn", w)

(***************************************************************************)
(* The lua_CFunction entry points and the two metamethods                  *)
(***************************************************************************)
\* as the signature comparison, accepting whatever table is on top
signatureCheckAnyTable(tb, stack) ==
    LET mt == MetaOf(tb, stack[1])
        s1 == IF mt = None THEN stack ELSE Append(stack, mt)
        top == Top(s1)
    IN IF ~IsTable(top) THEN [st |-> "ub", mt |-> Nil]
       ELSE [st |-> "ok", mt |-> top]

\* CppBindClassMetaMethod: the signature comparison that opens index and newIndex.
\* stack is <<receiver, key>> or <<receiver, key, value>>.
signatureCheck(tb, stack) ==
    LET mt == MetaOf(tb, stack[1])
        \* lua_getmetatable pushes nothing when there is no metatable
        s1 == IF mt = None THEN stack ELSE Append(stack, mt)
        top == Top(s1)
    IN IF ~IsTable(top) THEN [st |-> "ub", mt |-> Nil]
       ELSE LET sign_mt == RawGet(tb, Registry, RawGet(tb, top, signature)) IN
            IF sign_mt # top THEN [st |-> "error", mt |-> Nil]
            ELSE [st |-> "ok", mt |-> top]

RECURSIVE Call(_, _, _, _, _)
RECURSIVE indexLoop(_, _, _, _, _, _)
RECURSIVE newIndexLoop(_, _, _, _, _, _, _)

\* CppBindClassMetaMethod::index
index(tb, w, stack, again) ==
    LET chk == signatureCheck(tb, stack) IN
    CASE chk.st = "ub" -> Undefined(w)
      [] chk.st = "error" -> Err("metatable is invalid", w)
      [] OTHER -> indexLoop(tb, w, chk.mt, stack[1], StackAt(stack, 2), again)

\* as the loop of index, with the getter of a class asked before its own entries
indexLoopGetterFirst(tb, w, mt, recv, key, again) ==
    LET getter == RawGet(tb, RawGet(tb, mt, Str("___getters")), key)
        direct == RawGet(tb, mt, key)
    IN IF IsCFunction(getter)
       THEN Call(tb, w, getter, IF IsUserdata(recv) THEN <<recv>> ELSE <<>>, again)
       ELSE IF ~IsNil(direct) THEN Ok(direct, "", w)
       ELSE LET super == RawGet(tb, mt, Str("___super")) IN
            IF IsNil(super) THEN Ok(Nil, "", w)
            ELSE indexLoop(tb, w, super, recv, key, again)

indexLoop(tb, w, mt, recv, key, again) ==
    LET direct == RawGet(tb, mt, key) IN
    IF ~IsNil(direct) THEN Ok(direct, "", w)
    ELSE LET getter == RawGet(tb, RawGet(tb, mt, Str("___getters")), key) IN
         IF IsCFunction(getter)
         THEN Call(tb, w, getter, IF IsUserdata(recv) THEN <<recv>> ELSE <<>>, again)
         ELSE LET super == RawGet(tb, mt, Str("___super")) IN
              IF IsNil(super) THEN Ok(Nil, "", w)
              ELSE indexLoop(tb, w, super, recv, key, again)

\* CppBindClassMetaMethod::newIndex
newIndex(tb, w, stack, again) ==
    LET chk == signatureCheck(tb, stack) IN
    CASE chk.st = "ub" -> Undefined(w)
      [] chk.st = "error" -> Err("metatable is invalid", w)
      [] OTHER -> newIndexLoop(tb, w, chk.mt, stack[1], StackAt(stack, 2),
                               StackAt(stack, 3), again)

\* as the loop of newIndex, with an exhausted chain ignored instead of raised
newIndexLoopSilent(tb, w, mt, recv, key, value, again) ==
    LET setter == RawGet(tb, RawGet(tb, mt, Str("___setters")), key) IN
    IF IsCFunction(setter)
    THEN LET r == Call(tb, w, setter,
                       IF IsUserdata(recv) THEN <<recv, value>> ELSE <<value>>, again)
         IN IF r.st = "ok" THEN [r EXCEPT !.val = Nil] ELSE r
    ELSE LET super == RawGet(tb, mt, Str("___super")) IN
         IF IsNil(super) THEN Ok(Nil, "", w)
         ELSE newIndexLoop(tb, w, super, recv, key, value, again)

newIndexLoop(tb, w, mt, recv, key, value, again) ==
    LET setter == RawGet(tb, RawGet(tb, mt, Str("___setters")), key) IN
    IF IsCFunction(setter)
    THEN LET r == Call(tb, w, setter,
                       IF IsUserdata(recv) THEN <<recv, value>> ELSE <<value>>, again)
         IN IF r.st = "ok" THEN [r EXCEPT !.val = Nil] ELSE r
    ELSE LET super == RawGet(tb, mt, Str("___super")) IN
         IF IsNil(super) THEN Err("no writable class member", w)
         ELSE newIndexLoop(tb, w, super, recv, key, value, again)

\* lua_call on a C closure
Call(tb, w, fn, args, again) ==
    CASE fn.a = "errorReadOnly" -> errorReadOnly(w)
      [] fn.a = "errorConstMismatch" -> errorConstMismatch(w)
      [] fn.a = "ClassVariableGet" -> CppBindClassVariableGet(tb, w, fn, args)
      [] fn.a = "ClassVariableSet" -> CppBindClassVariableSet(tb, w, fn, args)
      [] fn.a = "ClassMethod" -> CppBindClassMethodCall(tb, w, fn, args)
      [] fn.a = "Destructor" -> CppBindClassDestructorCall(tb, w, fn, args, again)
      [] fn.a = "VariableGet" -> CppBindVariableGet(w, fn)
      [] fn.a = "VariableSet" -> CppBindVariableSet(w, fn, args)
      [] fn.a = "Method" -> CppBindMethodCall(w, fn, args)
      [] fn.a = "index" ->
            IF Len(args) = 0 THEN Undefined(w) ELSE index(tb, w, args, again)
      [] fn.a = "newIndex" ->
            IF Len(args) = 0 THEN Undefined(w) ELSE newIndex(tb, w, args, again)
      [] OTHER -> Err("attempt to call a non-function value", w)


(***************************************************************************)
(* The bound program: classes A <- B <- C, and D (a root, or a child of A) *)
(***************************************************************************)
Classes == {"A", "B", "C", "D"}
RootClasses == {"A", "D"}
ExtendPairs == {<<"B", "A">>, <<"C", "B">>, <<"D", "A">>}
MemberNames == {"m"}

\* the native test object of each class lives at a fixed address
AddrOf(T) == CASE T = "A" -> 1 [] T = "B" -> 2 [] T = "C" -> 3 [] OTHER -> 4

World == [objs |-> objs, statics |-> statics, heap |-> heap]

IsRegistered(tb, T) == IsTable(RawGet(tb, Registry, staticID(T)))

\* the builder's m_meta for a class opened under its own name
MetaFor(tb, T) == RawGet(tb, Module, Str(T))

\* ghost: the latest registration made for a member slot of a class
Declare(d, scope, T, name, kind, flag) ==
    (<<scope, T, name>> :> [kind |-> kind, flag |-> flag]) @@ d

\* ghost: the class T was opened with the given direct parent ("" for a root)
DeclareClass(d, T, parent) ==
    IF <<"class", T, "">> \in DOMAIN d THEN d
    ELSE (<<"class", T, "">> :> [kind |-> parent, flag |-> TRUE]) @@ d

NoOp == [op |-> "none", fn |-> Nil, holder |-> Nil, recv |-> Nil, key |-> Nil,
         value |-> Nil, st |-> "", msg |-> "", val |-> Nil, ran |-> "", exp |-> Nil,
         act |-> Nil]

\* ghost: the access made last, its inputs and its outcome r
Record(op, fn, holder, recv, key, value, r) ==
    [op |-> op, fn |-> fn, holder |-> holder, recv |-> recv, key |-> key,
     value |-> value, st |-> r.st, msg |-> r.msg, val |-> r.val, ran |-> r.ran,
     exp |-> r.exp, act |-> r.act]

\* what a script gets by copying the fields of the metatable of an instance of
\* ForgedClass into a table of its own: the signature token and the two
\* metamethods come along, and the script adds an entry under a member name
ForgedClass == "A"
ForgedMeta == Tbl("forgedmeta", "")
ForgedFields ==
    (Str("__index") :> IndexFn) @@
    (Str("__newindex") :> NewIndexFn) @@
    (Str("___getters") :> Tbl("getters", ForgedClass)) @@
    (Str("___setters") :> Tbl("setters", ForgedClass)) @@
    (Str("m") :> Num(MaxVal)) @@
    (signature :> classID(ForgedClass))

\* no bound call has been made; no LuaRef exists and the registry holds no handle
NoCall == [op |-> "none"]
NoRefs == [slot |-> <<>>, free |-> 0, freed |-> {}, ref |-> <<>>, stale |-> FALSE,
           self |-> FALSE]

InitTables ==
    (Registry :> EmptyTable) @@ (Module :> EmptyTable) @@
    (Tbl("foreignmeta", "") :> (Str("__call") :> Cfn("CppFunctor", "", "", "", FALSE))) @@
    (ForgedMeta :> ForgedFields)

\* the native test objects, one of each class, and the static data members
InitObjs == [p \in {AddrOf(T) : T \in Classes} |->
                [x |-> 0, alive |-> TRUE, dtors |-> 0, owners |-> 0]]
InitStatics == [T \in Classes |-> 0]

Init ==
    /\ tables = InitTables
    /\ decl = <<>>
    /\ nmem = 0
    /\ objs = InitObjs
    /\ statics = InitStatics
    /\ heap = <<>>
    /\ last = NoOp
    /\ call = NoCall
    /\ refs = NoRefs

(***************************************************************************)
(* Registration                                                            *)
(***************************************************************************)
\* the binding code runs first; the script then makes one access
Idle == last.op = "none"

\* CppBindModule::beginClass<T>(name)
BeginClass(T) ==
    /\ Idle
    /\ tables' = bind(tables, Module, T, T).tb
    /\ decl' = DeclareClass(decl, T, "")
    /\ UNCHANGED <<nmem, objs, statics, heap, last, aux>>

\* CppBindModule::beginExtendClass<T, SUPER>(name); SUPER has been bound
BeginExtendClass(T, S) ==
    /\ Idle
    /\ IsRegistered(tables, S)
    /\ tables' = extend(tables, Module, T, T, staticID(S)).tb
    /\ decl' = DeclareClass(decl, T, S)
    /\ UNCHANGED <<nmem, objs, statics, heap, last, aux>>

Member(T) == Idle /\ IsRegistered(tables, T) /\ nmem < MaxMembers

\* CppBindClass<T>::addVariable(name, v, writable)
AddVariable(T, name, writable) ==
    /\ Member(T)
    /\ LET m == MetaFor(tables, T)
           t1 == setMemberGetter(tables, m, name, VarGetFn(T, name))
       IN tables' = IF writable THEN setMemberSetter(t1, m, name, VarSetFn(T, name))
                    ELSE setMemberReadOnly(t1, m, name)
    /\ decl' = Declare(decl, "member", T, name, "variable", writable)
    /\ nmem' = nmem + 1
    /\ UNCHANGED <<objs, statics, heap, last, aux>>

\* CppBindClass<T>::addProperty(name, VG(T::*get)() const, void(T::*set)(VS))
AddProperty(T, name, hasSetter) ==
    /\ Member(T)
    /\ LET m == MetaFor(tables, T)
           t1 == setMemberGetter(tables, m, name, MethodFn(T, "get", name, FALSE))
       IN tables' = IF hasSetter
                    THEN setMemberSetter(t1, m, name, MethodFn(T, "set", name, FALSE))
                    ELSE setMemberReadOnly(t1, m, name)
    /\ decl' = Declare(decl, "member", T, name, "property", hasSetter)
    /\ nmem' = nmem + 1
    /\ UNCHANGED <<objs, statics, heap, last, aux>>

\* CppBindClass<T>::addProperty(name, std::function<V(const T*)>, [std::function<void(T*, const V&)>])
AddProxyProperty(T, name, hasSetter) ==
    /\ Member(T)
    /\ LET m == MetaFor(tables, T)
           t1 == setMemberGetter(tables, m, name, MethodFn(T, "get", name, TRUE))
       IN tables' = IF hasSetter
                    THEN setMemberSetter(t1, m, name, MethodFn(T, "set", name, FALSE))
                    ELSE setMemberReadOnly(t1, m, name)
    /\ decl' = Declare(decl, "member", T, name, "proxy", hasSetter)
    /\ nmem' = nmem + 1
    /\ UNCHANGED <<objs, statics, heap, last, aux>>

\* CppBindClass<T>::addFunction(name, proc); is_const is CppBind::IsConst
AddFunction(T, name, is_const) ==
    /\ Member(T)
    /\ tables' = setMemberFunction(tables, MetaFor(tables, T), name,
                     MethodFn(T, IF is_const THEN "read" ELSE "mutate", name, is_const),
                     is_const)
    /\ decl' = Declare(decl, "function", T, name, "function", is_const)
    /\ nmem' = nmem + 1
    /\ UNCHANGED <<objs, statics, heap, last, aux>>

\* CppBindClass<T>::addStaticVariable(name, v, writable)
AddStaticVariable(T, name, writable) ==
    /\ Member(T)
    /\ LET m == MetaFor(tables, T)
           t1 == setStaticGetter(tables, m, name, StaticVarGetFn(T, name))
       IN tables' = IF writable THEN setStaticSetter(t1, m, name, StaticVarSetFn(T, name))
                    ELSE setStaticReadOnly(t1, m, name)
    /\ decl' = Declare(decl, "static", T, name, "variable", writable)
    /\ nmem' = nmem + 1
    /\ UNCHANGED <<objs, statics, heap, last, aux>>

\* CppBindClass<T>::addStaticProperty(name, get, set)
AddStaticProperty(T, name, hasSetter) ==
    /\ Member(T)
    /\ LET m == MetaFor(tables, T)
           t1 == setStaticGetter(tables, m, name, StaticMethodFn(T, "get", name))
       IN tables' = IF hasSetter THEN setStaticSetter(t1, m, name, StaticMethodFn(T, "set", name))
                    ELSE setStaticReadOnly(t1, m, name)
    /\ decl' = Declare(decl, "static", T, name, "property", hasSetter)
    /\ nmem' = nmem + 1
    /\ UNCHANGED <<objs, statics, heap, last, aux>>

\* CppBindClass<T>::addStaticFunction(name, proc)
AddStaticFunction(T, name) ==
    /\ Member(T)
    /\ tables' = RawSet(tables, MetaFor(tables, T), Str(name), StaticMethodFn(T, "fn", name))
    /\ decl' = Declare(decl, "staticfunction", T, name, "function", TRUE)
    /\ nmem' = nmem + 1
    /\ UNCHANGED <<objs, statics, heap, last, aux>>


(***************************************************************************)
(* Script and native access to bound objects                               *)
(***************************************************************************)
\* CppObject::allocate<OBJ, T>: the metatable of a new block is what the registry
\* holds for the class at that moment (luaL_checktype raises if it holds none)
CanAllocate(tb, T, is_const) == IsTable(RawGet(tb, Registry, getClassID(T, is_const)))

allocate(tb, T, is_const, shape, ptr, block) ==
    LET mt == RawGet(tb, Registry, getClassID(T, is_const)) IN
    Ud(mt.a, mt.b, shape, ptr, block)

\* LuaCppObjectPtr<T, PTR, IS_CONST>::push of the address of the native test object
PushedPointers(tb) ==
    {allocate(tb, T, c, "ptr", AddrOf(T), 0) :
        T \in {U \in Classes : IsRegistered(tb, U)}, c \in BOOLEAN}

\* the class tables a script reaches by name
ClassTables(tb) == {MetaFor(tb, T) : T \in {U \in Classes : IsRegistered(tb, U)}}

\* values that are no bound object: a functor userdata with its own metatable,
\* a userdata without metatable, a light userdata, a plain table, a number
Functor == Ud("foreignmeta", "", "functor", 0, 0)
BareUserdata == Ud("", "", "raw", 0, 0)
ForeignValues == {Functor, BareUserdata, Lud("pointer", ""), Tbl("plain", ""), Num(0)}

\* a script table whose metatable is the copy; the script can make the copy once
\* the class is bound and an instance of it can be asked for its metatable
Forged == Tbl("forged", "")
ForgedValues(tb) == IF IsRegistered(tb, ForgedClass) THEN {Forged} ELSE {}

\* receivers on which the VM runs the class metamethods
Receivers(tb) == PushedPointers(tb) \cup ClassTables(tb) \cup ForgedValues(tb)

\* the registered member name, a name nobody registers, and names of fields
\* buildMetaTable keeps in the metatables
Keys == {Str("m"), Str("u"), Str("__index"), Str("___type")}

\* the names under which a script looks for something to call: a member, or
\* one of the metamethods buildMetaTable keeps in every metatable
CallNames == {Str("m")}
MetaNames == {Str("__index"), Str("__newindex")}

\* the second argument of the call: a key for a metamethod, a value otherwise
ArgsFor(f) == IF f \in {IndexFn, NewIndexFn} THEN {Str("m")} ELSE {Num(MaxVal)}

Apply(op, fn, holder, recv, key, value, r) ==
    /\ objs' = r.w.objs
    /\ statics' = r.w.statics
    /\ heap' = r.w.heap
    /\ last' = Record(op, fn, holder, recv, key, value, r)
    /\ UNCHANGED <<tables, decl, nmem, aux>>

\* script: v = recv[key]
ScriptGet ==
    /\ Idle
    /\ \E recv \in Receivers(tables), key \in Keys :
          Apply("get", Nil, Nil, recv, key, Nil,
                index(tables, World, <<recv, key>>, FALSE))

\* script: recv[key] = value
ScriptSet ==
    /\ Idle
    /\ \E recv \in Receivers(tables), key \in Keys, i \in 1..MaxVal :
          Apply("set", Nil, Nil, recv, key, Num(i),
                newIndex(tables, World, <<recv, key, Num(i)>>, FALSE))

\* f(recv, arg) for a value f the script read from holder[name]
CallFound(f, holder, name) ==
    /\ f.st = "ok"
    /\ f.ran = ""
    /\ IsCFunction(f.val)
    /\ \E recv \in PushedPointers(tables) \cup ForeignValues, arg \in ArgsFor(f.val) :
          Apply("call", f.val, holder, recv, name, arg,
                Call(tables, World, f.val, <<recv, arg>>, FALSE))

\* script: f = holder[name]; f(recv, arg) for a member name
ScriptCall ==
    /\ Idle
    /\ \E holder \in Receivers(tables), name \in CallNames :
          CallFound(index(tables, World, <<holder, name>>, FALSE), holder, name)

\* script: f = Class.__index or Class.__newindex; f(recv, key)
ScriptCallMeta ==
    /\ Idle
    /\ \E holder \in ClassTables(tables), name \in MetaNames :
          CallFound(index(tables, World, <<holder, name>>, FALSE), holder, name)

\* native: LuaType<T*>::get(L, 1) (is_const FALSE) or LuaType<const T*>::get(L, 1)
NativeGet ==
    /\ Idle
    /\ \E recv \in PushedPointers(tables) \cup ForeignValues, T \in Classes, c \in BOOLEAN :
          Apply("getObject", Cfn("getObject", T, "", "", c), Nil, recv, Nil, Nil,
                FromObj(getObject(tables, <<recv>>, 1, getClassID(T, c), c), World))

Next ==
    \/ \E T \in RootClasses : BeginClass(T)
    \/ \E p \in ExtendPairs : BeginExtendClass(p[1], p[2])
    \/ \E T \in Classes, n \in MemberNames, f \in BOOLEAN : AddVariable(T, n, f)
    \/ \E T \in Classes, n \in MemberNames, f \in BOOLEAN : AddProperty(T, n, f)
    \/ \E T \in Classes, n \in MemberNames, f \in BOOLEAN : AddProxyProperty(T, n, f)
    \/ \E T \in Classes, n \in MemberNames, f \in BOOLEAN : AddFunction(T, n, f)
    \/ \E T \in Classes, n \in MemberNames, f \in BOOLEAN : AddStaticVariable(T, n, f)
    \/ \E T \in Classes, n \in MemberNames, f \in BOOLEAN : AddStaticProperty(T, n, f)
    \/ \E T \in Classes, n \in MemberNames : AddStaticFunction(T, n)
    \/ ScriptGet
    \/ ScriptSet
    \/ ScriptCall
    \/ ScriptCallMeta
    \/ NativeGet

Spec == Init /\ [][Next]_vars



(***************************************************************************)
(* Lifetime of bound objects: class A is bound, blocks are pushed by value, *)
(* by pointer and by shared pointer, used by the script, dropped and        *)
(* collected, while the native side creates, deletes and releases objects.  *)
(***************************************************************************)
LifeClass == "A"

\* a native object: how it is owned ("value": inside a block, "raw": by native
\* code through a plain pointer, "shared": through shared pointers), nat native
\* shared owners, deleted: native code has deleted it
NewObject(kind) ==
    [x |-> 0, alive |-> TRUE, dtors |-> 0,
     owners |-> IF kind = "shared" THEN 1 ELSE 0,
     kind |-> kind,
     nat |-> IF kind = "shared" THEN 1 ELSE 0,
     deleted |-> FALSE]

\* a userdata block: its value, whether ~CppObject ran on it, whether the
\* collector finalized it, whether the script still holds it, and (ghost)
\* whether the script ran the "__gc" field on it
NewBlock(v) == [val |-> v, destroyed |-> FALSE, finalized |-> FALSE, reachable |-> TRUE,
                early |-> FALSE]

InitLife ==
    /\ tables = bind(InitTables, Module, LifeClass, LifeClass).tb
    /\ decl = DeclareClass(<<>>, LifeClass, "")
    /\ nmem = 0
    /\ objs = <<>>
    /\ statics = InitStatics
    /\ heap = <<>>
    /\ last = NoOp
    /\ call = NoCall
    /\ refs = NoRefs

CanPush(is_const) == Len(heap) < MaxBlocks /\ CanAllocate(tables, LifeClass, is_const)

\* CppObjectValue<T>::pushToStack: the object is constructed inside the block
PushValue(is_const) ==
    /\ CanPush(is_const)
    /\ Len(objs) < MaxObjects
    /\ objs' = Append(objs, NewObject("value"))
    /\ heap' = Append(heap, NewBlock(allocate(tables, LifeClass, is_const, "value",
                                              Len(objs) + 1, Len(heap) + 1)))
    /\ UNCHANGED <<tables, decl, nmem, statics, last, aux>>

\* CppObjectPtr::pushToStack(L, obj, is_const) for a live native object
PushPointer(p, is_const) ==
    /\ CanPush(is_const)
    /\ objs[p].kind = "raw" /\ objs[p].alive
    /\ heap' = Append(heap, NewBlock(allocate(tables, LifeClass, is_const, "ptr",
                                              p, Len(heap) + 1)))
    /\ UNCHANGED <<tables, decl, nmem, objs, statics, last, aux>>

\* CppObjectSharedPtr<SP, T>::pushToStack(L, sp, is_const): m_sp(sp) is one more owner
PushShared(p, is_const) ==
    /\ CanPush(is_const)
    /\ objs[p].kind = "shared" /\ objs[p].nat > 0 /\ objs[p].alive
    /\ objs' = [objs EXCEPT ![p].owners = @ + 1]
    /\ heap' = Append(heap, NewBlock(allocate(tables, LifeClass, is_const, "shared",
                                              p, Len(heap) + 1)))
    /\ UNCHANGED <<tables, decl, nmem, statics, last, aux>>

\* native code: new TestClass, or std::shared_ptr<TestClass>(new TestClass)
NativeNew(kind) ==
    /\ Len(objs) < MaxObjects
    /\ objs' = Append(objs, NewObject(kind))
    /\ UNCHANGED <<tables, decl, nmem, statics, heap, last, aux>>

\* native code: delete test
NativeDelete(p) ==
    /\ objs[p].kind = "raw" /\ objs[p].alive
    /\ objs' = [DestroyNative(World, p).objs EXCEPT ![p].deleted = TRUE]
    /\ UNCHANGED <<tables, decl, nmem, statics, heap, last, aux>>

\* native code: a std::shared_ptr<TestClass> goes out of scope
NativeRelease(p) ==
    /\ objs[p].kind = "shared" /\ objs[p].nat > 0
    /\ objs' = [ReleaseOwner(World, p).objs EXCEPT ![p].nat = @ - 1]
    /\ UNCHANGED <<tables, decl, nmem, statics, heap, last, aux>>

Held(b) == heap[b].reachable /\ ~heap[b].finalized

\* the outcome r of a script operation on block b takes effect
Effect(op, b, r) ==
    /\ objs' = r.w.objs
    /\ statics' = r.w.statics
    /\ heap' = [r.w.heap EXCEPT ![b].early = @ \/ (op = "call")]
    /\ UNCHANGED <<tables, decl, nmem, last, aux>>

\* script: v = obj[key]
LifeGet(b, key) ==
    /\ Held(b)
    /\ Effect("get", b, index(tables, World, <<heap[b].val, key>>, FALSE))

\* script: obj.__gc(obj), once per block
LifeCallGc(b) ==
    LET f == index(tables, World, <<heap[b].val, Str("__gc")>>, FALSE) IN
    /\ Held(b)
    /\ ~heap[b].destroyed
    /\ f.st = "ok"
    /\ IsCFunction(f.val)
    /\ Effect("call", b, Call(tables, World, f.val, <<heap[b].val>>, FALSE))

\* script: the last reference to the block is dropped (test = nil)
Unref(b) ==
    /\ Held(b)
    /\ heap' = [heap EXCEPT ![b].reachable = FALSE]
    /\ UNCHANGED <<tables, decl, nmem, objs, statics, last, aux>>

\* the collector finalizes an unreachable block: it calls the "__gc" field of
\* the block's metatable, then frees the block
Collect(b, again) ==
    LET gc == RawGet(tables, MetaOf(tables, heap[b].val), Str("__gc"))
        r == Call(tables, World, gc, <<heap[b].val>>, again)
    IN /\ ~heap[b].reachable
       /\ ~heap[b].finalized
       /\ objs' = r.w.objs
       /\ statics' = r.w.statics
       /\ heap' = [r.w.heap EXCEPT ![b].finalized = TRUE]
       /\ UNCHANGED <<tables, decl, nmem, last, aux>>

NextLife ==
    \/ \E c \in BOOLEAN : PushValue(c)
    \/ \E p \in DOMAIN objs, c \in BOOLEAN : PushPointer(p, c)
    \/ \E p \in DOMAIN objs, c \in BOOLEAN : PushShared(p, c)
    \/ \E kind \in {"raw", "shared"} : NativeNew(kind)
    \/ \E p \in DOMAIN objs : NativeDelete(p)
    \/ \E p \in DOMAIN objs : NativeRelease(p)
    \/ \E b \in DOMAIN heap, key \in {Str("u"), Str("__gc")} : LifeGet(b, key)
    \/ \E b \in DOMAIN heap : LifeCallGc(b)
    \/ \E b \in DOMAIN heap : Unref(b)
    \/ \E b \in DOMAIN heap, again \in BOOLEAN : Collect(b, again)

SpecLife == InitLife /\ [][NextLife]_vars


(***************************************************************************)
(* Type marshaller: LuaType<T>::push, get and opt.                         *)
(* A native value is [t, n, s, lv]: its type, a number (integer, boolean   *)
(* as 0 / 1, address), a string and, for a LuaRef, the VM value it holds.  *)
(* A conversion returns [st, msg, v]: st is "ok", "error" (luaL_error) or  *)
(* "ub".                                                                   *)
(***************************************************************************)
Bool(b) == V("bool", "", "", "", "", IF b THEN 1 ELSE 0, 0)

Native(type, n, s, lv) == [t |-> type, n |-> n, s |-> s, lv |-> lv]

\* the class whose pointers, references and shared pointers are marshalled
ArgClass == "A"

MOk(v) == [st |-> "ok", msg |-> "", v |-> v]
MErr(msg) == [st |-> "error", msg |-> msg, v |-> Native("", 0, "", Nil)]
MUndefined == [st |-> "ub", msg |-> "", v |-> Native("", 0, "", Nil)]

\* a std::string with an embedded NUL, and what c_str() shows of a string to
\* code that measures it with strlen
NulString == "d<NUL>e"
c_str(s) == IF s = NulString THEN "d" ELSE s

lua_isnone(v) == v.t = "none"
lua_isnoneornil(v) == v.t \in {"none", "nil"}
lua_toboolean(v) == IF v.t \in {"none", "nil"} \/ (v.t = "bool" /\ v.n = 0) THEN 0 ELSE 1

\* lua_tolstring on a number gives its decimal form
NumStr(n) == CASE n = 0 -> "0" [] n = 1 -> "1" [] n = 2 -> "2" [] OTHER -> "n"

\* luaL_checkinteger, luaL_checkunsigned, luaL_checknumber
luaL_checknumber(type, v) ==
    IF v.t = "num" THEN MOk(Native(type, v.n, "", Nil)) ELSE MErr("number expected")

\* luaL_checklstring: strings, and numbers in their decimal form
luaL_checklstring(type, v) ==
    CASE v.t = "str" -> MOk(Native(type, 0, v.a, Nil))
      [] v.t = "num" -> MOk(Native(type, 0, NumStr(v.n), Nil))
      [] OTHER -> MErr("string expected")

\* the first character of a string ("" stands for the terminating NUL)
FirstChar(s) == CASE s = "ab" -> "a" [] s = NulString -> "d" [] OTHER -> s

\* the pointer of the block CppObject::getObject accepted (r is its outcome)
PtrOf(type, r, v) ==
    IF r.st = "ok"
    THEN IF ~IsBoundBlock(v) THEN MUndefined ELSE MOk(Native(type, v.n, "", Nil))
    ELSE [st |-> r.st, msg |-> r.msg, v |-> Native("", 0, "", Nil)]

\* LuaCppObjectPtr<T, PTR, IS_CONST>::get
LuaCppObjectPtrGet(tb, stack, idx) ==
    PtrOf("ptr", getObject(tb, stack, idx, getClassID(ArgClass, FALSE), FALSE),
          StackAt(stack, idx))

\* LuaCppObject<T, IS_REF, IS_CONST>::get: getObject, then the factory's cast
LuaCppObjectGet(tb, stack, idx) ==
    PtrOf("obj", getObject(tb, stack, idx, getClassID(ArgClass, FALSE), FALSE),
          StackAt(stack, idx))

\* luaL_checkstring(L, index)[0]
CharOf(r) == IF r.st = "ok" THEN MOk(Native("char", 0, FirstChar(r.v.s), Nil)) ELSE r

\* LuaType<T>::get(L, index)
LuaTypeGet(tb, type, stack, idx) ==
    LET v == StackAt(stack, idx) IN
    CASE type = "bool" -> MOk(Native("bool", lua_toboolean(v), "", Nil))
      [] type \in {"int", "unsigned", "number"} -> luaL_checknumber(type, v)
      [] type = "cfn" ->
            MOk(IF v.t = "cfn" THEN Native("cfn", 1, v.a, Nil) ELSE Native("cfn", 0, "", Nil))
      [] type = "char" -> CharOf(luaL_checklstring(type, v))
      [] type \in {"string", "cstr", "LuaString"} -> luaL_checklstring(type, v)
      [] type = "LuaRef" ->
            IF lua_isnone(v) THEN MOk(Native("LuaRef", 0, "", Nil))
            ELSE MOk(Native("LuaRef", 1, "", v))
      [] type = "ptr" -> LuaCppObjectPtrGet(tb, stack, idx)
      [] OTHER -> LuaCppObjectGet(tb, stack, idx)

\* LuaValueType<bool>::opt
LuaBoolOpt(v, def) ==
    IF lua_isnone(v) THEN MOk(def) ELSE MOk(Native("bool", lua_toboolean(v), "", Nil))

\* luaL_optinteger, luaL_optunsigned, luaL_optnumber
luaL_optnumber(type, v, def) ==
    IF lua_isnoneornil(v) THEN MOk(def) ELSE luaL_checknumber(type, v)

\* LuaType<T>::opt(L, index, def)
LuaTypeOpt(tb, type, stack, idx, def) ==
    LET v == StackAt(stack, idx) IN
    CASE type = "bool" -> LuaBoolOpt(v, def)
      [] type \in {"int", "unsigned", "number"} -> luaL_optnumber(type, v, def)
      [] type = "cfn" -> LuaTypeGet(tb, type, stack, idx)
      [] type = "char" ->
            IF lua_isnoneornil(v) THEN MOk(def) ELSE LuaTypeGet(tb, type, stack, idx)
      [] type = "string" ->
            \* luaL_optlstring measures the default with strlen
            IF lua_isnoneornil(v) THEN MOk(Native("string", 0, c_str(def.s), Nil))
            ELSE luaL_checklstring(type, v)
      [] type \in {"cstr", "LuaString"} ->
            IF lua_isnoneornil(v) THEN MOk(def) ELSE luaL_checklstring(type, v)
      [] type = "LuaRef" ->
            IF lua_isnone(v) THEN MOk(def) ELSE MOk(Native("LuaRef", 1, "", v))
      [] type = "ptr" ->
            IF lua_isnoneornil(v) THEN MOk(def) ELSE LuaCppObjectPtrGet(tb, stack, idx)
      [] OTHER ->
            IF ~lua_isnoneornil(v) THEN MErr("nil passed to reference")
            ELSE LuaCppObjectGet(tb, stack, idx)

(***************************************************************************)
(* LuaType<T>::push.  Returns [st, vals, blocks]: the values put on the    *)
(* stack and the number of userdata blocks allocated.                      *)
(***************************************************************************)
Pushed(vals, blocks) == [st |-> "ok", msg |-> "", vals |-> vals, blocks |-> blocks]
PushErr(msg) == [st |-> "error", msg |-> msg, vals |-> <<>>, blocks |-> 0]

\* CppObjectPtr / CppObjectSharedPtr / CppObjectValue ::pushToStack: allocate
\* raises through luaL_checktype when the class has no metatable
pushToStack(tb, shape, addr) ==
    IF ~CanAllocate(tb, ArgClass, FALSE) THEN PushErr("table expected")
    ELSE Pushed(<<allocate(tb, ArgClass, FALSE, shape, addr, 0)>>, 1)

\* as LuaCppObjectPtr::push, without the test for nullptr
LuaCppObjectPtrPushUnchecked(tb, nv) == pushToStack(tb, "ptr", nv.n)

\* LuaCppObjectPtr<T, PTR, IS_CONST>::push
LuaCppObjectPtrPush(tb, nv) ==
    IF nv.n = 0 THEN Pushed(<<Nil>>, 0) ELSE pushToStack(tb, "ptr", nv.n)

\* LuaCppObjectFactory<SP, T, true, true>::push
LuaCppObjectFactoryPush(tb, nv) ==
    IF nv.n = 0 THEN Pushed(<<Nil>>, 0) ELSE pushToStack(tb, "shared", nv.n)

\* LuaType<T>::push(L, value)
LuaTypePush(tb, nv) ==
    CASE nv.t = "void" -> Pushed(<<>>, 0)
      [] nv.t = "bool" -> Pushed(<<Bool(nv.n = 1)>>, 0)
      [] nv.t \in {"int", "unsigned", "number"} -> Pushed(<<Num(nv.n)>>, 0)
      [] nv.t \in {"char", "string", "cstr", "LuaString"} -> Pushed(<<Str(nv.s)>>, 0)
      [] nv.t = "ptr" -> LuaCppObjectPtrPush(tb, nv)
      [] nv.t = "shared" -> LuaCppObjectFactoryPush(tb, nv)
      [] OTHER -> pushToStack(tb, "value", nv.n)

(***************************************************************************)
(* Argument marshalling pipeline (CppArg.h).  A parameter is [mode, type]: *)
(* mode "in" is a plain parameter, "state" is lua_State* / LuaState, the   *)
(* others are the argument specs _opt, _def, _out, _ref, _ref_opt,         *)
(* _ref_def.                                                               *)
(***************************************************************************)
Param(mode, type) == [mode |-> mode, type |-> type]

\* CppArgTraits<...>::IsInput, IsOutput, IsOptonal, HasDefault
IsInput(p) == p.mode \notin {"out", "state"}
IsOutput(p) == p.mode \in {"out", "ref", "ref_opt", "ref_def"}
IsOptonal(p) == p.mode \in {"opt", "def", "ref_opt", "ref_def"}
HasDefault(p) == p.mode \in {"def", "ref_def"}

\* CppArgTraits<_def<T, NUM, DEN>>::DefaultValue, and DefaultType() of _opt
DefaultValue(p) == Native(p.type, MaxVal, "", Nil)
DefaultType(p) == Native(p.type, 0, "", Nil)

\* as CppArgInput::get, with an output-only parameter taking a slot as well
CppArgInputGetOutConsumes(tb, p, stack, idx) ==
    IF ~IsInput(p)
    THEN [n |-> IF p.mode = "out" THEN 1 ELSE 0, r |-> MOk(DefaultType(p)), read |-> 0]
    ELSE IF ~IsOptonal(p)
    THEN [n |-> 1, r |-> LuaTypeGet(tb, p.type, stack, idx), read |-> idx]
    ELSE [n |-> 1, read |-> idx,
          r |-> LuaTypeOpt(tb, p.type, stack, idx,
                           IF HasDefault(p) THEN DefaultValue(p) ELSE DefaultType(p))]

\* CppArgInput<Traits, IsInput, IsOptional, HasDefault>::get: the slots consumed
\* (n), the conversion (r) and the stack index it read (0: none).  The holder of
\* a parameter that is no input is value-initialized by the tuple.
CppArgInputGet(tb, p, stack, idx) ==
    IF ~IsInput(p)
    THEN [n |-> 0, r |-> MOk(DefaultType(p)), read |-> 0]
    ELSE IF ~IsOptonal(p)
    THEN [n |-> 1, r |-> LuaTypeGet(tb, p.type, stack, idx), read |-> idx]
    ELSE [n |-> 1, read |-> idx,
          r |-> LuaTypeOpt(tb, p.type, stack, idx,
                           IF HasDefault(p) THEN DefaultValue(p) ELSE DefaultType(p))]

\* the state of a conversion run: args converted so far, indices read so far
Converted(st, msg, args, reads) == [st |-> st, msg |-> msg, args |-> args, reads |-> reads]

RECURSIVE CppArgTupleInputGet(_, _, _, _, _, _)
RECURSIVE CppArgTupleInputNext(_, _, _, _, _, _, _)
\* CppArgTupleInput<P0, P...>::get: parameter k reads at index, the next one at
\* index plus what k consumed; a conversion that raises ends the run
CppArgTupleInputGet(tb, params, k, stack, idx, acc) ==
    IF k > Len(params) THEN acc
    ELSE CppArgTupleInputNext(tb, params, k, stack, idx, acc,
                              CppArgInputGet(tb, params[k], stack, idx))

\* g is what CppArg<P0>::get returned
CppArgTupleInputNext(tb, params, k, stack, idx, acc, g) ==
    IF g.r.st # "ok"
    THEN Converted(g.r.st, g.r.msg, acc.args, Append(acc.reads, g.read))
    ELSE CppArgTupleInputGet(tb, params, k + 1, stack, idx + g.n,
                             Converted("ok", "", Append(acc.args, g.r.v),
                                       Append(acc.reads, g.read)))

\* as CppArgOutput::push, pushing back only the parameters marked _out
CppArgOutputPushOutOnly(tb, p, v) ==
    IF p.mode = "out" THEN LuaTypePush(tb, v) ELSE Pushed(<<>>, 0)

\* CppArgOutput<Traits, IsOutput>::push
CppArgOutputPush(tb, p, v) ==
    IF IsOutput(p) THEN LuaTypePush(tb, v) ELSE Pushed(<<>>, 0)

RECURSIVE CppArgTupleOutputPush(_, _, _, _, _)
RECURSIVE CppArgTupleOutputNext(_, _, _, _, _, _)
\* CppArgTupleOutput<P0, P...>::push: the outputs in declaration order
CppArgTupleOutputPush(tb, params, k, args, acc) ==
    IF k > Len(params) THEN acc
    ELSE CppArgTupleOutputNext(tb, params, k, args, acc,
                               CppArgOutputPush(tb, params[k], args[k]))

\* o is what CppArg<P0>::push did
CppArgTupleOutputNext(tb, params, k, args, acc, o) ==
    IF o.st # "ok" THEN [o EXCEPT !.vals = acc.vals, !.blocks = acc.blocks]
    ELSE CppArgTupleOutputPush(tb, params, k + 1, args,
                               Pushed(acc.vals \o o.vals, acc.blocks + o.blocks))

(***************************************************************************)
(* Invocation adapters.  A bound callable is described by                   *)
(*   params   its parameter list                                           *)
(*   ret      the native value its body returns (type "void": nothing)     *)
(*   out      the address its body stores in an output pointer parameter   *)
(*   throwAt  where a native exception is thrown: "none", "convert" (by a  *)
(*            conversion), "invoke" (by the body), "result" (by the        *)
(*            conversion of the result)                                    *)
(*   throwKind "std": a std::exception with a plain message, "fmt": one    *)
(*            whose message holds a '%' directive, "other": a type that is *)
(*            no std::exception;  crash: how the build resolves undefined  *)
(*            behaviour                                                    *)
(* A call returns [st, msg, invoked, trace, reads, rets, blocks, after]:   *)
(* st "ok", "error" (a VM error was raised), "unwound" (a native exception *)
(* left the entry point) or "ub"; trace the order of the steps taken;      *)
(* reads the stack index read for each parameter; rets the values returned *)
(* to the VM; blocks the userdata blocks allocated; after the arguments as *)
(* the body left them.                                                     *)
(***************************************************************************)
Returned(st, msg, invoked, trace, reads, rets, blocks, after) ==
    [st |-> st, msg |-> msg, invoked |-> invoked, trace |-> trace, reads |-> reads,
     rets |-> rets, blocks |-> blocks, after |-> after]

\* the message of the std::exception the test callables throw
What == "what"

\* the handler of every entry point:
\*     catch (std::exception& e) { return luaL_error(L, e.what()); }
\* e.what() is passed as the format string of luaL_error
Catch(fnc, invoked, trace, reads, blocks) ==
    CASE fnc.throwKind = "std" ->
            Returned("error", What, invoked, trace, reads, <<>>, blocks, <<>>)
      [] fnc.throwKind = "fmt" ->
            IF fnc.crash THEN Returned("ub", "", invoked, trace, reads, <<>>, blocks, <<>>)
            ELSE Returned("error", "invalid option to 'lua_pushfstring'", invoked, trace,
                          reads, <<>>, blocks, <<>>)
      [] OTHER -> Returned("unwound", "", invoked, trace, reads, <<>>, blocks, <<>>)

\* what the body of the callable does to its arguments: it writes every
\* parameter it takes by non-const reference
BodyWrites(fnc, args) ==
    [k \in DOMAIN args |->
        IF ~IsOutput(fnc.params[k]) THEN args[k]
        ELSE IF args[k].t = "ptr" THEN Native("ptr", fnc.out, "", Nil)
        ELSE Native(args[k].t, NextVal(args[k].n), "", Nil)]

\* one "arg" step for every parameter that read a stack slot
ArgSteps(reads) == [k \in DOMAIN reads |-> IF reads[k] = 0 THEN "skip" ELSE "arg"]

\* the values returned to the VM once the callable has run: res is the push of
\* its result, outs the pushes of the output parameters; t1 the trace so far
PushResults(fnc, conv, t1, blocks0, after, res, outs) ==
    IF fnc.throwAt \in {"invoke", "result"} THEN Catch(fnc, TRUE, t1, conv.reads, blocks0)
    ELSE IF res.st # "ok"
    THEN Returned(res.st, res.msg, TRUE, t1, conv.reads, <<>>, blocks0, after)
    ELSE IF outs.st # "ok"
    THEN Returned(outs.st, outs.msg, TRUE, t1 \o [k \in DOMAIN res.vals |-> "result"],
                  conv.reads, <<>>, blocks0 + res.blocks + outs.blocks, after)
    ELSE Returned("ok", "", TRUE,
                  t1 \o [k \in DOMAIN res.vals |-> "result"]
                     \o [k \in DOMAIN outs.vals |-> "out"],
                  conv.reads, res.vals \o outs.vals,
                  blocks0 + res.blocks + outs.blocks, after)

\* after is the argument tuple as the body of the callable left it
PushAfter(tb, fnc, conv, pre, blocks0, after) ==
    PushResults(fnc, conv, pre \o <<"invoke">>, blocks0, after, LuaTypePush(tb, fnc.ret),
                CppArgTupleOutputPush(tb, fnc.params, 1, after, Pushed(<<>>, 0)))

\* the tail of CppBindMethodBase::call and CppBindClassMethodBase::call:
\*     int n = CppInvoke...::push(L, fn, args);
\*     return n + CppArgTupleOutput<P...>::push(L, args);
\* pre is the trace so far, conv the converted arguments
InvokeAndPush(tb, fnc, conv, pre, blocks0) ==
    PushAfter(tb, fnc, conv, pre, blocks0, BodyWrites(fnc, conv.args))

\* the conversion of the arguments that opens every call, from stack index IARG
ConvertArgs(tb, fnc, stack, IARG) ==
    CppArgTupleInputGet(tb, fnc.params, 1, stack, IARG, Converted("ok", "", <<>>, <<>>))

\* as the rest of call, with the callable run whatever the conversions gave
AfterConvertEager(tb, fnc, conv, pre) ==
    IF fnc.throwAt = "convert" THEN Catch(fnc, FALSE, pre, <<>>, 0)
    ELSE IF conv.st # "ok"
    THEN Returned(conv.st, conv.msg, TRUE, pre \o ArgSteps(conv.reads) \o <<"invoke">>,
                  conv.reads, <<>>, 0, <<>>)
    ELSE InvokeAndPush(tb, fnc, conv, pre \o ArgSteps(conv.reads), 0)

\* the rest of call once the arguments were converted (conv): a conversion that
\* raised has left the entry point, otherwise the callable is invoked
AfterConvert(tb, fnc, conv, pre) ==
    IF fnc.throwAt = "convert" THEN Catch(fnc, FALSE, pre, <<>>, 0)
    ELSE IF conv.st # "ok"
    THEN Returned(conv.st, conv.msg, FALSE, pre \o ArgSteps(conv.reads), conv.reads,
                  <<>>, 0, <<>>)
    ELSE InvokeAndPush(tb, fnc, conv, pre \o ArgSteps(conv.reads), 0)

\* CppBindMethodBase<CHK, FN, IARG, R, P...>::call
CppBindMethodBaseCall(tb, fnc, stack, IARG) ==
    AfterConvert(tb, fnc, ConvertArgs(tb, fnc, stack, IARG), <<>>)

\* g is what CppObject::get<T>(L, 1, IS_CONST) gave
WithReceiver(tb, fnc, stack, g) ==
    IF g.st # "ok" THEN Returned(g.st, g.msg, FALSE, <<"recv">>, <<>>, <<>>, 0, <<>>)
    ELSE AfterConvert(tb, fnc, ConvertArgs(tb, fnc, stack, 2), <<"recv">>)

\* CppBindClassMethodBase<T, IS_PROXY, IS_CONST, FN, R, P...>::call: the receiver
\* is taken from slot 1, then the arguments from slot 2
CppBindClassMethodBaseCall(tb, fnc, stack) ==
    WithReceiver(tb, fnc, stack, CppObjectGet(tb, stack, 1, ArgClass, fnc.isConst))

\* pushToStack: blk is the allocated block, then the constructor runs
Construct(fnc, conv, blk) ==
    IF blk.st # "ok"
    THEN Returned(blk.st, blk.msg, FALSE, ArgSteps(conv.reads), conv.reads, <<>>, 0, <<>>)
    ELSE IF fnc.throwAt \in {"invoke", "result"}
    THEN Catch(fnc, TRUE, ArgSteps(conv.reads) \o <<"alloc", "invoke">>, conv.reads, 1)
    ELSE Returned("ok", "", TRUE, ArgSteps(conv.reads) \o <<"alloc", "invoke">>,
                  conv.reads, blk.vals, 1, conv.args)

\* conv is what CppArgInput<P...>::get(L, 2, args) gave
ConstructAfter(tb, fnc, conv) ==
    IF fnc.throwAt = "convert" THEN Catch(fnc, FALSE, <<>>, <<>>, 0)
    ELSE IF conv.st # "ok"
    THEN Returned(conv.st, conv.msg, FALSE, ArgSteps(conv.reads), conv.reads, <<>>, 0, <<>>)
    ELSE Construct(fnc, conv, pushToStack(tb, fnc.shape, AddrOf(ArgClass)))

\* CppBindClassConstructor<SP, T, _arg(*)(P...)>::call: the arguments from slot 2,
\* then pushToStack allocates the block and runs the constructor
CppBindClassConstructorCall(tb, fnc, stack) ==
    ConstructAfter(tb, fnc, ConvertArgs(tb, fnc, stack, 2))

(***************************************************************************)
(* Bound calls: class ArgClass is bound, the script calls a bound function, *)
(* method, constructor or factory once, reads a bound variable, or native  *)
(* code converts one stack slot.                                           *)
(***************************************************************************)
\* number of declared parameters of the bound callables explored
MaxParams == 2

InitCall ==
    /\ tables = bind(InitTables, Module, ArgClass, ArgClass).tb
    /\ decl = DeclareClass(<<>>, ArgClass, "")
    /\ nmem = 0
    /\ objs = InitObjs
    /\ statics = InitStatics
    /\ heap = <<>>
    /\ last = NoOp
    /\ call = NoCall
    /\ refs = NoRefs

Modes == {"in", "opt", "def", "out", "ref", "ref_opt", "ref_def", "state"}
ParamSpecs == {Param(m, "int") : m \in Modes} \cup {Param("out", "ptr")}
ParamLists == UNION {[1..n -> ParamSpecs] : n \in 0..MaxParams}

\* what the script passes in a slot: nothing usable, a number, a string
SlotValues == {Nil, Num(MaxVal), Str("s")}
ArgStacks == UNION {[1..n -> SlotValues] : n \in 0..MaxParams}

\* the receivers a script calls a method on
MethodReceivers ==
    {allocate(tables, ArgClass, c, "ptr", AddrOf(ArgClass), 0) : c \in BOOLEAN} \cup {Num(0)}

Void == Native("void", 0, "", Nil)
PlainRets == {Void, Native("int", MaxVal, "", Nil)}
\* what a factory or a variable of pointer type holds: a null or a live raw
\* pointer, an empty or an owning shared pointer; or an object by value
ObjectRets ==
    {Native(t, a, "", Nil) : t \in {"ptr", "shared"}, a \in {0, AddrOf(ArgClass)}}
        \cup {Native("obj", AddrOf(ArgClass), "", Nil)}

Callable(kind, params, ret, out, throwAt, throwKind, crash, isConst, shape) ==
    [kind |-> kind, params |-> params, ret |-> ret, out |-> out, throwAt |-> throwAt,
     throwKind |-> throwKind, crash |-> crash, isConst |-> isConst, shape |-> shape]

Quiet(kind, params, ret, out, isConst, shape) ==
    Callable(kind, params, ret, out, "none", "std", FALSE, isConst, shape)

NoCallYet == call.op = "none"

Called(op, base, fnc, stack, res) ==
    /\ call' = [op |-> op, base |-> base, fnc |-> fnc, stack |-> stack, res |-> res]
    /\ UNCHANGED <<tables, decl, nmem, objs, statics, heap, last, refs>>

\* script: f(a1, ...) for a module function or Class.f(a1, ...) for a static one
\* (addFunction / addStaticFunction: CppBindMethod<FN> with IARG = 1)
CallFunction ==
    /\ NoCallYet
    /\ \E kind \in {"function", "static"}, params \in ParamLists, stack \in ArgStacks,
          ret \in PlainRets :
          LET fnc == Quiet(kind, params, ret, 0, FALSE, "") IN
          Called("call", 1, fnc, stack, CppBindMethodBaseCall(tables, fnc, stack, 1))

\* script: obj:f(a1, ...) (CppBindClass::addFunction)
CallMethod ==
    /\ NoCallYet
    /\ \E recv \in MethodReceivers, params \in ParamLists, stack \in ArgStacks,
          ret \in PlainRets, c \in BOOLEAN :
          LET fnc == Quiet("method", params, ret, 0, c, "") IN
          Called("call", 2, fnc, <<recv>> \o stack,
                 CppBindClassMethodBaseCall(tables, fnc, <<recv>> \o stack))

\* script: Class(a1, ...) with addConstructor(LUA_ARGS(...)) or
\* addConstructor(LUA_SP(...), LUA_ARGS(...)); slot 1 holds the class table
CallConstructor ==
    /\ NoCallYet
    /\ \E shape \in {"value", "shared"}, params \in ParamLists, stack \in ArgStacks :
          LET fnc == Quiet("ctor", params, Void, 0, FALSE, shape) IN
          Called("call", 2, fnc, <<MetaFor(tables, ArgClass)>> \o stack,
                 CppBindClassConstructorCall(tables, fnc,
                                             <<MetaFor(tables, ArgClass)>> \o stack))

\* script: Class(a1, ...) with addFactory(&create): CppBindMethod<FN, ARGS, 2>
CallFactory ==
    /\ NoCallYet
    /\ \E params \in ParamLists, stack \in ArgStacks, ret \in ObjectRets,
          out \in {0, AddrOf(ArgClass)} :
          LET fnc == Quiet("factory", params, ret, out, FALSE, "") IN
          Called("call", 2, fnc, <<MetaFor(tables, ArgClass)>> \o stack,
                 CppBindMethodBaseCall(tables, fnc,
                                       <<MetaFor(tables, ArgClass)>> \o stack, 2))

\* CppFunctor::call: f->run(L) inside the handler
CppFunctorCall(tb, fnc) ==
    IF fnc.throwAt = "none"
    THEN Returned("ok", "", TRUE, <<"invoke">>, <<>>, <<>>, 0, <<>>)
    ELSE Catch(fnc, TRUE, <<"invoke">>, <<>>, 0)

\* CppFunctor::gc: delete f inside the handler
CppFunctorGc(tb, fnc) ==
    IF fnc.throwAt = "none"
    THEN Returned("ok", "", TRUE, <<"invoke">>, <<>>, <<>>, 0, <<>>)
    ELSE Catch(fnc, TRUE, <<"invoke">>, <<>>, 0)

\* res is what LuaType<PT>::push(L, *ptr) did
GetterPushed(fnc, res) ==
    IF fnc.throwAt # "none" THEN Catch(fnc, FALSE, <<>>, <<>>, 0)
    ELSE IF res.st # "ok" THEN Returned(res.st, res.msg, FALSE, <<>>, <<>>, <<>>, 0, <<>>)
    ELSE Returned("ok", "", FALSE, <<"result">>, <<>>, res.vals, res.blocks, <<>>)

\* CppBindVariableGetter<T, PT>::call: LuaType<PT>::push(L, *ptr); fnc.ret is *ptr
CppBindVariableGetterCall(tb, fnc) == GetterPushed(fnc, LuaTypePush(tb, fnc.ret))

\* script: v = Module.var for a variable of pointer, shared pointer or class type
GetVariable ==
    /\ NoCallYet
    /\ \E ret \in ObjectRets :
          LET fnc == Quiet("variable", <<>>, ret, 0, FALSE, "") IN
          Called("call", 1, fnc, <<>>, CppBindVariableGetterCall(tables, fnc))

\* the entry points of the library that run native code inside a handler
EntryPoints == {"function", "method", "ctor", "variable", "functor", "functorgc"}

\* the places of an entry point where native code can throw
ThrowPlaces(entry) ==
    CASE entry \in {"function", "method"} -> {"convert", "invoke", "result"}
      [] entry = "ctor" -> {"convert", "invoke"}
      [] entry = "variable" -> {"result"}
      [] OTHER -> {"invoke"}

EntryCall(tb, entry, fnc) ==
    CASE entry = "function" -> CppBindMethodBaseCall(tb, fnc, <<Num(MaxVal)>>, 1)
      [] entry = "method" ->
            CppBindClassMethodBaseCall(tb, fnc,
                <<allocate(tb, ArgClass, FALSE, "ptr", AddrOf(ArgClass), 0), Num(MaxVal)>>)
      [] entry = "ctor" ->
            CppBindClassConstructorCall(tb, fnc, <<MetaFor(tb, ArgClass), Num(MaxVal)>>)
      [] entry = "variable" -> CppBindVariableGetterCall(tb, fnc)
      [] entry = "functor" -> CppFunctorCall(tb, fnc)
      [] OTHER -> CppFunctorGc(tb, fnc)

\* a call during which native code throws
CallThrowing ==
    /\ NoCallYet
    /\ \E entry \in EntryPoints, kind \in {"std", "fmt", "other"}, crash \in BOOLEAN :
       \E at \in ThrowPlaces(entry) :
          LET fnc == Callable(entry, <<Param("in", "int")>>, Native("int", MaxVal, "", Nil),
                              0, at, kind, crash, FALSE, "value")
          IN Called("throw", 1, fnc, <<>>, EntryCall(tables, entry, fnc))

\* the native types that have a marshaller
MarshalTypes == {"bool", "int", "unsigned", "number", "char", "string", "cstr",
                 "LuaString", "cfn", "LuaRef", "ptr", "obj"}

\* a stack of one slot, or no slot at all
OptStacks ==
    {<<>>} \cup
    {<<v>> : v \in {Nil, Bool(FALSE), Bool(TRUE), Num(0), Num(MaxVal), Str("s"), Str("ab"),
                    IndexFn, BareUserdata} \cup
                   {allocate(tables, ArgClass, c, "ptr", AddrOf(ArgClass), 0) : c \in BOOLEAN}}

\* the defaults native code supplies
Defaults(type) ==
    CASE type \in {"bool"} -> {Native(type, n, "", Nil) : n \in {0, 1}}
      [] type \in {"int", "unsigned", "number"} -> {Native(type, n, "", Nil) : n \in {0, MaxVal}}
      [] type = "string" -> {Native(type, 0, s, Nil) : s \in {"d", NulString}}
      [] type \in {"char", "cstr", "LuaString"} -> {Native(type, 0, "d", Nil)}
      [] type = "cfn" -> {Native(type, 0, "", Nil), Native(type, 1, "index", Nil)}
      [] type = "LuaRef" -> {Native(type, 0, "", Nil), Native(type, 1, "", Num(MaxVal))}
      [] type = "ptr" -> {Native(type, a, "", Nil) : a \in {0, AddrOf(ArgClass)}}
      [] OTHER -> {Native(type, AddrOf(ArgClass), "", Nil)}

\* native: LuaType<T>::opt(L, 1, def), and LuaType<T>::get(L, 1) on the same stack
OptConvert ==
    /\ NoCallYet
    /\ \E type \in MarshalTypes, stack \in OptStacks :
       \E def \in Defaults(type) :
          /\ call' = [op |-> "opt", type |-> type, stack |-> stack, def |-> def,
                      res |-> LuaTypeOpt(tables, type, stack, 1, def),
                      get |-> LuaTypeGet(tables, type, stack, 1)]
          /\ UNCHANGED <<tables, decl, nmem, objs, statics, heap, last, refs>>

NextCall ==
    \/ CallFunction
    \/ CallMethod
    \/ CallConstructor
    \/ CallFactory
    \/ GetVariable
    \/ CallThrowing
    \/ OptConvert

SpecCall == InitCall /\ [][NextCall]_vars

(***************************************************************************)
(* Reading the registrations: what the binding code declared               *)
(***************************************************************************)
Declared(scope, T, name) == <<scope, T, name>> \in DOMAIN decl

\* the direct parent a class was opened with, "" for a root or an unopened class
ParentOf(T) == IF Declared("class", T, "") THEN decl[<<"class", T, "">>].kind ELSE ""

RECURSIVE Lineage(_)
\* T and its ancestors
Lineage(T) == IF T = "" THEN {} ELSE {T} \cup Lineage(ParentOf(T))

RECURSIVE NearestIn(_, _, _)
\* the class nearest to T in its lineage that declares name in scope, or ""
NearestIn(scope, T, name) ==
    IF T = "" THEN ""
    ELSE IF Declared(scope, T, name) THEN T
    ELSE NearestIn(scope, ParentOf(T), name)

FlagOf(scope, T, name) == decl[<<scope, NearestIn(scope, T, name), name>>].flag
KindOf(scope, T, name) == decl[<<scope, NearestIn(scope, T, name), name>>].kind

\* an instance of a bound class, as a script sees it
IsInstance(v) == IsBoundBlock(v) /\ v.a \in {"class", "const"}
IsConstTagged(v) == IsInstance(v) /\ v.a = "const"
IsMutable(v) == IsInstance(v) /\ v.a = "class"
IsClassTable(v) == v.t = "table" /\ v.a = "static"
ClassOf(v) == v.b

NativeUntouched == objs = InitObjs /\ statics = InitStatics

Raised(msg) == last.st = "error" /\ last.msg = msg /\ last.ran = "" /\ NativeUntouched

(***************************************************************************)
(* Claims                                                                  *)
(***************************************************************************)
\* C1: no native mutation through a const-tagged object.  Assigning a writable
\* member (declared on the class or an ancestor) through a const-tagged receiver,
\* and calling a function bound from a non-const member function with a
\* const-tagged receiver, whether the callable was fetched from a const-tagged or
\* from a mutable instance, raises an error, runs no native body and leaves the
\* native objects as they were.
C1_NoMutationThroughConst ==
    /\ (/\ last.op = "set"
        /\ IsConstTagged(last.recv)
        /\ NearestIn("member", ClassOf(last.recv), last.key.a) # ""
        /\ FlagOf("member", ClassOf(last.recv), last.key.a))
       => (last.st = "error" /\ last.ran = "" /\ NativeUntouched)
    /\ (/\ last.op = "call"
        /\ IsConstTagged(last.recv)
        /\ IsInstance(last.holder)
        /\ NearestIn("function", ClassOf(last.holder), last.key.a) # ""
        /\ ~FlagOf("function", ClassOf(last.holder), last.key.a))
       => (last.st = "error" /\ last.ran = "" /\ NativeUntouched)

\* a non-const method fetched from a mutable instance was called with a
\* const-tagged object of that very class
C1_Witness ==
    /\ last.op = "call"
    /\ IsMutable(last.holder)
    /\ IsConstTagged(last.recv)
    /\ ClassOf(last.recv) = ClassOf(last.holder)
    /\ NearestIn("function", ClassOf(last.holder), last.key.a) \notin {"", ClassOf(last.holder)}
    /\ ~FlagOf("function", ClassOf(last.holder), last.key.a)
    /\ last.fn.a = "ClassMethod"
    /\ last.st = "error"

\* the object the claim C2 lets getObject accept: a bound object whose class is T
\* or a descendant of T, const-tagged only if a const pointer is wanted
Eligible(v, T, want_const) ==
    /\ IsInstance(v)
    /\ T \in Lineage(ClassOf(v))
    /\ (want_const \/ ~IsConstTagged(v))

\* C2: getObject(index, T, want_const) yields the pointer exactly for a bound
\* object of class T or of a descendant of T that is not const-tagged unless
\* want_const; in every other case it raises a Lua error.
C2_GetObjectPartition ==
    last.op = "getObject" =>
        IF Eligible(last.recv, last.fn.b, last.fn.n = 1)
        THEN last.st = "ok"
        ELSE last.st = "error"

\* the part of C2 that the code keeps: values that carry a metatable
C2_WithMetatable ==
    (last.op = "getObject" /\ MetaOf(tables, last.recv) # None) =>
        IF Eligible(last.recv, last.fn.b, last.fn.n = 1)
        THEN last.st = "ok"
        ELSE last.st = "error"

\* a light userdata was handed to getObject
C2_Witness ==
    /\ last.op = "getObject"
    /\ last.recv.t = "lud"
    /\ last.st = "ub"

RegisteredSomewhere(name) ==
    \E T \in Classes, scope \in {"member", "function", "static", "staticfunction"} :
        Declared(scope, T, name)

\* C4: reading a key that was never registered as a method, static function or
\* getter on the class or its ancestors, from a bound object or a class table,
\* yields nil and raises no error.
C4_UnknownKeyIsNil ==
    (/\ last.op = "get"
     /\ IsInstance(last.recv) \/ IsClassTable(last.recv)
     /\ ~RegisteredSomewhere(last.key.a))
    => (last.st = "ok" /\ IsNil(last.val))

\* what the code keeps of C4: keys that are no field of the metatables
C4_ForeignKeyIsNil ==
    (/\ last.op = "get"
     /\ IsInstance(last.recv) \/ IsClassTable(last.recv)
     /\ ~RegisteredSomewhere(last.key.a)
     /\ IsNil(RawGet(tables, MetaOf(tables, last.recv), last.key)))
    => (last.st = "ok" /\ IsNil(last.val))

\* a field of the metatable came back from a read of a never registered key
C4_Witness ==
    /\ last.op = "get"
    /\ IsInstance(last.recv)
    /\ last.key = Str("___type")
    /\ last.st = "ok"
    /\ ~IsNil(last.val)

\* C5: assigning to a key for which neither the receiver's class nor an ancestor
\* has a setter raises "no writable class member", runs no setter and leaves the
\* native state unchanged.
C5_NoSetterRaises ==
    (/\ last.op = "set"
     /\ \/ IsInstance(last.recv) /\ NearestIn("member", ClassOf(last.recv), last.key.a) = ""
        \/ IsClassTable(last.recv) /\ NearestIn("static", ClassOf(last.recv), last.key.a) = "")
    => Raised("no writable class member")

\* a name that is bound as a function, so that reads find it, was assigned to
C5_Witness ==
    /\ last.op = "set"
    /\ IsMutable(last.recv)
    /\ NearestIn("function", ClassOf(last.recv), last.key.a) # ""
    /\ NearestIn("member", ClassOf(last.recv), last.key.a) = ""
    /\ Raised("no writable class member")


\* the table the registry holds under the signature token of v's metatable
SignedBy(v) == RawGet(tables, Registry, RawGet(tables, MetaOf(tables, v), signature))

\* the access ran one of the two metamethods on last.recv
MetaAccess ==
    \/ last.op \in {"get", "set"}
    \/ last.op = "call" /\ last.fn \in {IndexFn, NewIndexFn}

\* C6: index and newIndex compare the receiver's metatable with the table the
\* registry holds under that metatable's signature token; when the two differ,
\* also because the metatable has no signature field, the access raises
\* "metatable is invalid" and no entry, getter or setter is looked up or run.
C6_InvalidMetatableRaises ==
    (/\ MetaAccess
     /\ MetaOf(tables, last.recv) # None
     /\ SignedBy(last.recv) # MetaOf(tables, last.recv))
    => Raised("metatable is invalid")

\* a member that a class declares was read from a table whose metatable carries
\* the signature token of that class without being the table the registry holds
C6_Witness ==
    /\ last.op = "get"
    /\ last.recv = Forged
    /\ ~IsNil(RawGet(tables, MetaOf(tables, last.recv), signature))
    /\ IsTable(SignedBy(last.recv))
    /\ Declared("member", ForgedClass, last.key.a)
    /\ Raised("metatable is invalid")

\* a metamethod fetched from a class was run on a userdata whose metatable has
\* no signature field
C6_WitnessUnsigned ==
    /\ last.op = "call"
    /\ last.fn \in {IndexFn, NewIndexFn}
    /\ last.recv = Functor
    /\ IsNil(RawGet(tables, MetaOf(tables, last.recv), signature))
    /\ Raised("metatable is invalid")

\* the one registration made under this name is the one in scope on class T
OnlyOn(scope, T, name) ==
    /\ Declared(scope, T, name)
    /\ \A U \in Classes, sc \in {"member", "function", "static", "staticfunction"} :
          Declared(sc, U, name) => (U = T /\ sc = scope)

\* A <- B <- C, each opened with beginExtendClass on its direct parent
Chain == ParentOf("C") = "B" /\ ParentOf("B") = "A" /\ Declared("class", "A", "")

OfC(v) == IsInstance(v) /\ ClassOf(v) = "C"

\* C7: with A <- B <- C, a getter, setter or method registered on A only is
\* found through an instance of C (a mutable one, and a const-tagged one for
\* reads) and runs with that instance as receiver: the receiver check for A
\* accepts it.
C7_InheritedMembersWork ==
    /\ (/\ Chain /\ last.op = "get" /\ OfC(last.recv)
        /\ OnlyOn("member", "A", last.key.a))
       => (last.st = "ok" /\ last.ran = "get")
    /\ (/\ Chain /\ last.op = "set" /\ OfC(last.recv) /\ IsMutable(last.recv)
        /\ OnlyOn("member", "A", last.key.a) /\ FlagOf("member", "A", last.key.a))
       => (last.st = "ok" /\ last.ran = "set")
    /\ (/\ Chain /\ last.op = "get" /\ OfC(last.recv)
        /\ OnlyOn("function", "A", last.key.a)
        /\ IsMutable(last.recv) \/ FlagOf("function", "A", last.key.a))
       => (last.st = "ok" /\ last.val.a = "ClassMethod")
    /\ (/\ Chain /\ last.op = "call" /\ OfC(last.recv) /\ last.holder = last.recv
        /\ OnlyOn("function", "A", last.key.a)
        /\ IsMutable(last.recv) \/ FlagOf("function", "A", last.key.a))
       => (last.st = "ok" /\ last.ran \in {"mutate", "read"})

\* what the code keeps of C7: everything but a read, through a const-tagged
\* instance, of a property whose getter is a member function
C7_ButConstPropertyRead ==
    \/ /\ last.op = "get" /\ IsConstTagged(last.recv)
       /\ NearestIn("member", ClassOf(last.recv), last.key.a) # ""
       /\ KindOf("member", ClassOf(last.recv), last.key.a) = "property"
    \/ C7_InheritedMembersWork

\* a property registered on A only was read through a const-tagged instance of C
\* and the receiver check for A refused it
C7_Witness ==
    /\ Chain
    /\ last.op = "get"
    /\ OfC(last.recv) /\ IsConstTagged(last.recv)
    /\ OnlyOn("member", "A", last.key.a)
    /\ KindOf("member", "A", last.key.a) = "property"
    /\ last.st = "error"
    /\ last.msg = "type mismatch"


\* the blocks that wrap the native object p
BlocksOf(p) == {b \in DOMAIN heap : heap[b].val.n = p}
Uncollected(p) == {b \in BlocksOf(p) : ~heap[b].finalized}

\* C8: the destructor of the object inside a value-owned block runs exactly
\* once, at the collection of the block, whatever the script did with the
\* object before; once every such block is collected, every object constructed
\* in one was destroyed once, so the live-instance count is back where it was.
C8_DestroyedOnceAtCollection ==
    \A b \in DOMAIN heap :
        heap[b].val.c = "value" =>
            objs[heap[b].val.n].dtors = (IF heap[b].finalized THEN 1 ELSE 0)

\* what the code keeps of C8: blocks on which the script never ran "__gc"
C8_UnlessScriptCalledGc ==
    \A b \in DOMAIN heap :
        (heap[b].val.c = "value" /\ ~heap[b].early) =>
            objs[heap[b].val.n].dtors = (IF heap[b].finalized THEN 1 ELSE 0)

\* the destructor of a value-owned object has run while the script still holds
\* the block
C8_Witness ==
    \E b \in DOMAIN heap :
        /\ heap[b].val.c = "value"
        /\ Held(b)
        /\ objs[heap[b].val.n].dtors = 1

\* C9: a block pushed from a plain pointer or reference does not own its
\* pointee: whatever happens to the block, collection included, the pointee is
\* neither destroyed nor modified unless native code deletes it, and a block the
\* script holds stays a userdata, never nil, after the pointee was deleted.
C9_PointerOwned ==
    /\ \A p \in DOMAIN objs :
          objs[p].kind = "raw" =>
              /\ objs[p].x = 0
              /\ objs[p].alive = ~objs[p].deleted
              /\ objs[p].dtors = (IF objs[p].deleted THEN 1 ELSE 0)
    /\ \A b \in DOMAIN heap :
          (heap[b].val.c = "ptr" /\ Held(b)) =>
              (IsUserdata(heap[b].val) /\ IsBoundBlock(heap[b].val))

\* a pointer-owned block was collected, after the script had run "__gc" on it,
\* and another block of the same pointee is still held after native code
\* deleted the pointee: its destructor ran once, in the delete
C9_Witness ==
    \E b1, b2 \in DOMAIN heap :
        /\ heap[b1].val.c = "ptr" /\ heap[b2].val.c = "ptr"
        /\ heap[b1].val.n = heap[b2].val.n
        /\ heap[b1].finalized /\ heap[b1].early
        /\ Held(b2)
        /\ objs[heap[b1].val.n].deleted
        /\ objs[heap[b1].val.n].dtors = 1

\* C10: a block pushed from a shared pointer holds exactly one owner from its
\* push to its finalization, so the use count is the number of native owners
\* plus the number of uncollected blocks, and the pointee lives exactly as long
\* as one of them is left.
C10_SharedOwnership ==
    \A p \in DOMAIN objs :
        objs[p].kind = "shared" =>
            /\ objs[p].owners = objs[p].nat + Cardinality(Uncollected(p))
            /\ objs[p].alive = (objs[p].nat + Cardinality(Uncollected(p)) > 0)
            /\ objs[p].dtors = (IF objs[p].alive THEN 0 ELSE 1)

\* what the code keeps of C10: pointees none of whose blocks had "__gc" run by
\* the script
C10_UnlessScriptCalledGc ==
    \A p \in DOMAIN objs :
        (objs[p].kind = "shared"
            /\ \A b \in BlocksOf(p) : ~heap[b].early) =>
            /\ objs[p].owners = objs[p].nat + Cardinality(Uncollected(p))
            /\ objs[p].alive = (objs[p].nat + Cardinality(Uncollected(p)) > 0)
            /\ objs[p].dtors = (IF objs[p].alive THEN 0 ELSE 1)

\* the pointee of a shared block the script still holds has been destroyed
C10_Witness ==
    \E b \in DOMAIN heap :
        /\ heap[b].val.c = "shared"
        /\ Held(b)
        /\ ~objs[heap[b].val.n].alive


(***************************************************************************)
(* Reading a bound call                                                    *)
(***************************************************************************)
IsCall == call.op = "call"
Completed == IsCall /\ call.res.st = "ok"

\* the number of values the push of the native result contributes
ResultCount(fnc) == IF fnc.ret.t = "void" THEN 0 ELSE 1

\* the output parameters among the first k
OutputsUpTo(params, k) == {j \in 1..k : IsOutput(params[j])}

\* where among the returned values the output parameter k stands
OutputSlot(fnc, k) == ResultCount(fnc) + Cardinality(OutputsUpTo(fnc.params, k))

IsNullPointer(nv) == nv.t \in {"ptr", "shared"} /\ nv.n = 0
MakesBlock(nv) == nv.t \in {"ptr", "shared", "obj"} /\ nv.n # 0

\* C11: pushing a null raw class pointer or an empty shared pointer, as the
\* result of a function or factory, as an output parameter or as a variable,
\* puts exactly nil on the stack and allocates no block: the blocks a completed
\* call allocated are exactly those of its non-null object values
C11_NullPushesNil ==
    (Completed /\ call.fnc.kind \in {"function", "static", "method", "factory", "variable"}) =>
        /\ IsNullPointer(call.fnc.ret) => call.res.rets[1] = Nil
        /\ \A k \in DOMAIN call.res.after :
              (IsOutput(call.fnc.params[k]) /\ IsNullPointer(call.res.after[k]))
                  => call.res.rets[OutputSlot(call.fnc, k)] = Nil
        /\ call.res.blocks =
              (IF MakesBlock(call.fnc.ret) THEN 1 ELSE 0) +
              Cardinality({k \in DOMAIN call.res.after :
                              IsOutput(call.fnc.params[k]) /\ MakesBlock(call.res.after[k])})

\* a factory returned an empty shared pointer and left a null output pointer
C11_Witness ==
    /\ Completed
    /\ call.fnc.kind = "factory"
    /\ call.fnc.ret = Native("shared", 0, "", Nil)
    /\ \E k \in DOMAIN call.res.after :
          IsOutput(call.fnc.params[k]) /\ call.res.after[k] = Native("ptr", 0, "", Nil)
    /\ call.res.rets[1] = Nil
    /\ call.res.blocks = 0

\* a variable holding a null raw pointer was read
C11_WitnessVariable ==
    /\ Completed
    /\ call.fnc.kind = "variable"
    /\ call.fnc.ret = Native("ptr", 0, "", Nil)
    /\ call.res.rets = <<Nil>>
    /\ call.res.blocks = 0


\* a conversion of the call raised: that of the receiver or that of an argument
ReceiverRaises ==
    call.fnc.kind = "method" /\
    CppObjectGet(tables, call.stack, 1, ArgClass, call.fnc.isConst).st # "ok"
ArgumentRaises == ConvertArgs(tables, call.fnc, call.stack, call.base).st # "ok"

\* the steps of the trace that are of one of the given kinds
StepsOf(kinds) == {i \in DOMAIN call.res.trace : call.res.trace[i] \in kinds}

\* C12: in every bound function, method, constructor and factory call the
\* receiver and the arguments are converted before the callable is invoked; when
\* a conversion raises the callable is not invoked and no block was allocated;
\* the output parameters are pushed after the callable has returned
C12_ConvertInvokePush ==
    IsCall =>
        /\ (ReceiverRaises \/ ArgumentRaises) =>
              /\ ~call.res.invoked
              /\ call.res.st # "ok"
              /\ call.res.blocks = 0
              /\ StepsOf({"invoke", "alloc", "result", "out"}) = {}
        /\ \A i \in StepsOf({"recv", "arg"}), j \in StepsOf({"invoke", "alloc"}) : i < j
        /\ \A i \in StepsOf({"recv"}), j \in StepsOf({"arg"}) : i < j
        /\ \A i \in StepsOf({"invoke"}), j \in StepsOf({"result", "out"}) : i < j
        /\ call.res.invoked <=> StepsOf({"invoke"}) # {}

\* a method call whose receiver and first argument converted and whose second
\* argument raised
C12_Witness ==
    /\ IsCall
    /\ call.fnc.kind = "method"
    /\ ~ReceiverRaises
    /\ Len(call.res.reads) = 2
    /\ call.res.reads[2] = 3
    /\ call.res.st = "error"
    /\ ~call.res.invoked

\* a constructor call stopped by a conversion, and a call that pushed an output
C12_WitnessConstructor ==
    /\ IsCall
    /\ call.fnc.kind = "ctor"
    /\ ArgumentRaises
    /\ call.res.blocks = 0

C12_WitnessOutput ==
    /\ Completed
    /\ StepsOf({"arg"}) # {}
    /\ StepsOf({"out"}) # {}


(***************************************************************************)
(* Exceptions in the entry points                                          *)
(***************************************************************************)
IsThrow == call.op = "throw"

\* the message of the exception thrown: a plain text, or one holding a '%'
MessageOf(fnc) == IF fnc.throwKind = "fmt" THEN "100%" ELSE What

\* C13: every native exception thrown during argument conversion, during the
\* callable's execution or during result conversion inside an entry point
\* (function, method, constructor, variable accessor, functor) is caught there
\* and re-raised as a VM error carrying the exception's message; none unwinds
\* out of the entry point into the VM.  Fails: the handlers catch
\* std::exception only and hand e.what() to luaL_error as the format string.
C13_ExceptionsBecomeErrors ==
    IsThrow =>
        /\ call.res.st = "error"
        /\ call.res.msg = MessageOf(call.fnc)

\* what the handlers do achieve: a std::exception whose message holds no '%'
\* becomes a VM error with that message, in every entry point and place
C13_StdExceptionCaught ==
    (IsThrow /\ call.fnc.throwKind = "std") =>
        /\ call.res.st = "error"
        /\ call.res.msg = What
        /\ call.res.rets = <<>>

C13_WitnessCaught ==
    /\ IsThrow
    /\ call.fnc.throwKind = "std"
    /\ call.fnc.kind = "method"
    /\ call.fnc.throwAt = "invoke"
    /\ call.res.st = "error"

C13_WitnessUnwound ==
    /\ IsThrow
    /\ call.fnc.throwKind = "other"
    /\ call.res.st = "unwound"

(***************************************************************************)
(* Stack indices and returned values of a bound call                       *)
(***************************************************************************)
\* the parameters that take their value from a stack slot, as the argument
\* specs are documented: all but lua_State* / LuaState and _out
ConsumesSlot(p) == p.mode \in {"in", "opt", "def", "ref", "ref_opt", "ref_def"}

\* the slot-consuming parameters declared before the k-th
EarlierConsumers(params, k) == {j \in 1..(k - 1) : ConsumesSlot(params[j])}

\* the first argument slot of each kind of callable
BaseOf(kind) == IF kind \in {"function", "static"} THEN 1 ELSE 2

\* C17: the stack index the k-th declared parameter is read from is base plus
\* the number of earlier slot-consuming parameters, base 1 for module and
\* static functions and 2 for methods, constructors and factories; state and
\* _out parameters read no slot, every other one reads exactly one, whether
\* its value is present or not.
C17_ParameterIndex ==
    (IsCall /\ call.fnc.kind # "variable") =>
        /\ call.base = BaseOf(call.fnc.kind)
        /\ \A k \in DOMAIN call.res.reads :
              IF ConsumesSlot(call.fnc.params[k])
              THEN call.res.reads[k] =
                      BaseOf(call.fnc.kind)
                          + Cardinality(EarlierConsumers(call.fnc.params, k))
              ELSE call.res.reads[k] = 0
        /\ Completed => Len(call.res.reads) = Len(call.fnc.params)

\* a method whose second parameter follows an _out one: it is read at slot 2
C17_Witness ==
    /\ Completed
    /\ call.fnc.kind = "method"
    /\ Len(call.fnc.params) = 2
    /\ call.fnc.params[1].mode = "out"
    /\ call.fnc.params[2].mode = "in"
    /\ call.res.reads = <<0, 2>>

\* a static function with an absent optional first argument: the second
\* parameter is still read at slot 2
C17_WitnessAbsent ==
    /\ Completed
    /\ call.fnc.kind = "static"
    /\ Len(call.fnc.params) = 2
    /\ call.fnc.params[1].mode = "opt"
    /\ call.fnc.params[2].mode = "ref_def"
    /\ call.stack = <<>>
    /\ call.res.reads = <<1, 2>>

\* a factory and a constructor read their first argument at slot 2
C17_WitnessFactory ==
    /\ Completed
    /\ call.fnc.kind \in {"factory", "ctor"}
    /\ Len(call.fnc.params) = 2
    /\ call.fnc.params[1].mode = "state"
    /\ call.res.reads = <<0, 2>>

\* the parameters marked _out, _ref, _ref_opt or _ref_def
MarkedOutput(p) == p.mode \in {"out", "ref", "ref_opt", "ref_def"}

\* r of a call: nothing for a void callable, one value otherwise (the new
\* object for a constructor)
NativeResults(fnc) == IF fnc.kind # "ctor" /\ fnc.ret.t = "void" THEN 0 ELSE 1

\* the values returned are the native result, then the output parameters in
\* declaration order with the values the body left in them
ReturnsResultThenOutputs ==
    /\ Len(call.res.rets) =
          NativeResults(call.fnc)
              + Cardinality({k \in DOMAIN call.fnc.params : MarkedOutput(call.fnc.params[k])})
    /\ (call.fnc.kind # "ctor" /\ call.fnc.ret.t # "void") =>
          call.res.rets[1] = LuaTypePush(tables, call.fnc.ret).vals[1]
    /\ \A k \in DOMAIN call.fnc.params :
          MarkedOutput(call.fnc.params[k]) =>
             /\ OutputSlot(call.fnc, k) \in DOMAIN call.res.rets
             /\ call.res.rets[OutputSlot(call.fnc, k)] =
                   LuaTypePush(tables, call.res.after[k]).vals[1]

\* C18: a bound call (function, method, constructor, factory) returns exactly
\* r + o values, r being 0 for a void callable and 1 otherwise and o the number
\* of parameters marked _out, _ref, _ref_opt or _ref_def: the native result
\* first, then the output parameters in declaration order with their values
\* after the call.  Fails for constructors: they return the object only.
C18_ReturnsResultThenOutputs ==
    (Completed /\ call.fnc.kind \in {"function", "static", "method", "ctor", "factory"})
        => ReturnsResultThenOutputs

\* the same for the callables that go through CppBindMethodBase::call and
\* CppBindClassMethodBase::call: it holds for them
C18_FunctionsReturnOutputs ==
    (Completed /\ call.fnc.kind \in {"function", "static", "method", "factory"})
        => ReturnsResultThenOutputs

\* a method with a result, an in-out and an output parameter returned three
\* values
C18_WitnessFunctions ==
    /\ Completed
    /\ call.fnc.kind = "method"
    /\ call.fnc.ret.t = "int"
    /\ Len(call.fnc.params) = 2
    /\ call.fnc.params[1].mode = "ref"
    /\ call.fnc.params[2].mode = "out"
    /\ call.stack[2] = Num(MaxVal)
    /\ Len(call.res.rets) = 3
    /\ call.res.rets[2] = Num(NextVal(MaxVal))
    /\ call.res.rets[2] # call.stack[2]

\* a constructor with an in-out parameter returned the object alone
C18_WitnessConstructor ==
    /\ Completed
    /\ call.fnc.kind = "ctor"
    /\ \E k \in DOMAIN call.fnc.params : call.fnc.params[k].mode = "ref"
    /\ Len(call.res.rets) = 1

(***************************************************************************)
(* opt against get                                                         *)
(***************************************************************************)
IsOpt == call.op = "opt"

\* the slot converted is beyond the top of the stack, or holds nil
SlotAbsentOrNil == call.stack = <<>> \/ call.stack[1] = Nil

\* opt gave the default when the slot is absent or nil, what get gives otherwise
OptIsDefaultOrGet ==
    IF SlotAbsentOrNil THEN call.res = MOk(call.def) ELSE call.res = call.get

\* C19: for every native type that has a marshaller, opt(index, default)
\* returns the supplied default whenever the slot is absent or holds nil, and
\* otherwise exactly what get(index) returns.  Fails for bool, lua_CFunction,
\* LuaRef, class values/references and std::string defaults with a NUL.
C19_OptIsDefaultOrGet == IsOpt => OptIsDefaultOrGet

\* the marshallers for which it holds: the numbers, char, the C strings,
\* LuaString, class pointers, and std::string with a default free of NUL
C19_HoldsForNumbersAndStrings ==
    (/\ IsOpt
     /\ call.type \in {"int", "unsigned", "number", "char", "string", "cstr", "LuaString", "ptr"}
     /\ call.def.s # NulString)
        => OptIsDefaultOrGet

\* bool: a nil slot gives false although the default is true
C19_WitnessBool ==
    /\ IsOpt
    /\ call.type = "bool"
    /\ call.stack = <<Nil>>
    /\ call.def.n = 1
    /\ call.res = MOk(Native("bool", 0, "", Nil))

\* a class reference: the nil slot goes on to get and raises, a bound object
\* is refused
C19_WitnessObject ==
    /\ IsOpt
    /\ call.type = "obj"
    /\ call.stack # <<>>
    /\ call.stack[1].t = "ud"
    /\ call.get.st = "ok"
    /\ call.res = MErr("nil passed to reference")

\* an integer: the default for a nil slot, the checked conversion otherwise
C19_WitnessNumber ==
    /\ IsOpt
    /\ call.type = "int"
    /\ call.stack = <<Nil>>
    /\ call.def.n = MaxVal
    /\ call.res = MOk(call.def)
    /\ call.get.st = "error"

(***************************************************************************)
(* Registering classes under names.  The binding code opens classes with   *)
(* beginClass<T>(name) and beginExtendClass<T, SUPER>(name), adds members, *)
(* pushes objects; the script then reads a member of a class table or of   *)
(* an object it was handed.                                                *)
(***************************************************************************)
\* number of beginClass / beginExtendClass calls explored
MaxRegs == 3

RegClasses == {"A", "B"}
RegNames == {"X", "Y"}

\* ghost: the registration made last (class T under name; was: T had a triple
\* before; before: the tables before the call; meta: the m_meta the builder
\* got), the number of registrations made, the objects the script holds and
\* the <<class, name>> pairs opened so far
Reg(op, T, name, was, before, meta, n, held, names) ==
    [op |-> op, T |-> T, name |-> name, was |-> was, before |-> before, meta |-> meta,
     n |-> n, held |-> held, names |-> names]

InitReg ==
    /\ tables = InitTables
    /\ decl = <<>>
    /\ nmem = 0
    /\ objs = InitObjs
    /\ statics = InitStatics
    /\ heap = <<>>
    /\ last = NoOp
    /\ call = Reg("none", "", "", FALSE, <<>>, Nil, 0, {}, {})
    /\ refs = NoRefs

\* r is what bind or extend returned
Registered(T, name, r) ==
    /\ tables' = r.tb
    /\ call' = Reg("reg", T, name, IsRegistered(tables, T), tables, r.meta,
                   call.n + 1, call.held, call.names \cup {<<T, name>>})
    /\ UNCHANGED <<decl, nmem, objs, statics, heap, last, refs>>

\* CppBindModule::beginClass<T>(name)
RegBeginClass(T, name) ==
    /\ Idle
    /\ call.n < MaxRegs
    /\ Registered(T, name, bind(tables, Module, name, T))

\* CppBindModule::beginExtendClass<T, SUPER>(name); SUPER has been bound
RegBeginExtendClass(T, S, name) ==
    /\ Idle
    /\ call.n < MaxRegs
    /\ IsRegistered(tables, S)
    /\ Registered(T, name, extend(tables, Module, name, T, staticID(S)))

\* CppBindClass<T>::addFunction("m", proc) on the builder the last
\* registration returned
RegAddFunction ==
    /\ Idle
    /\ call.op = "reg"
    /\ nmem < MaxMembers
    /\ tables' = setMemberFunction(tables, call.meta, "m",
                                   MethodFn(call.T, "read", "m", TRUE), TRUE)
    /\ nmem' = nmem + 1
    /\ call' = [call EXCEPT !.op = "add"]
    /\ UNCHANGED <<decl, objs, statics, heap, last, refs>>

\* native: the address of the test object of T is pushed and the script keeps
\* the value
RegPush(T) ==
    /\ Idle
    /\ CanAllocate(tables, T, FALSE)
    /\ call' = [call EXCEPT !.op = "push",
                            !.held = @ \cup {allocate(tables, T, FALSE, "ptr", AddrOf(T), 0)}]
    /\ UNCHANGED <<tables, decl, nmem, objs, statics, heap, last, refs>>

\* the class tables a script reaches by the names they were bound under
NamedClassTables == {RawGet(tables, Module, Str(n)) : n \in RegNames} \ {Nil}

\* script: v = recv.m for a class table or an object it holds
RegAccess ==
    /\ Idle
    /\ \E recv \in NamedClassTables \cup call.held :
          Apply("get", Nil, Nil, recv, Str("m"), Nil,
                index(tables, World, <<recv, Str("m")>>, FALSE))

NextReg ==
    \/ \E T \in RegClasses, n \in RegNames : RegBeginClass(T, n)
    \/ \E n \in RegNames : RegBeginExtendClass("B", "A", n)
    \/ RegAddFunction
    \/ \E T \in RegClasses : RegPush(T)
    \/ RegAccess

SpecReg == InitReg /\ [][NextReg]_vars

\* the metatables built for a name: static, mutable, const
TripleOf(tb, name) ==
    LET st == RawGet(tb, Module, Str(name)) IN
    {st, RawGet(tb, st, Str("___class")), RawGet(tb, st, Str("___const"))}

\* the registry entries of the identity tokens of class T
TokensOf(tb, T) ==
    <<RawGet(tb, Registry, staticID(T)), RawGet(tb, Registry, classID(T)),
      RawGet(tb, Registry, constID(T))>>

IsReg == call.op = "reg"

\* C14: the metatable triple of a native class is created once: a later
\* beginClass / beginExtendClass for that class returns the existing triple,
\* creates no table and leaves the registry entries of the class's tokens, the
\* ___super links and the registered members (every existing table) as they
\* were.  Fails when the class is opened again under another name.
C14_TripleCreatedOnce ==
    (IsReg /\ call.was) =>
        /\ call.meta = RawGet(call.before, Registry, staticID(call.T))
        /\ DOMAIN tables = DOMAIN call.before
        /\ TokensOf(tables, call.T) = TokensOf(call.before, call.T)
        /\ \A t \in DOMAIN call.before : tables[t] = call.before[t]

\* what the code does guarantee: opening a name again returns the triple that
\* name was bound to and changes nothing
C14_IdempotentByName ==
    (IsReg /\ ~IsNil(RawGet(call.before, Module, Str(call.name)))) =>
        /\ call.meta = RawGet(call.before, Module, Str(call.name))
        /\ tables = call.before

\* class A was opened a second time under the name of its first registration,
\* after a member was added
C14_WitnessSameName ==
    /\ IsReg
    /\ call.was
    /\ call.T = "A"
    /\ call.meta = RawGet(call.before, Registry, staticID("A"))
    /\ RawGet(tables, RawGet(tables, call.meta, Str("___class")), Str("m")) # Nil
    /\ tables = call.before

\* class A was opened a second time under another name: a second triple
C14_WitnessOtherName ==
    /\ IsReg
    /\ call.was
    /\ call.T = "A"
    /\ call.meta # RawGet(call.before, Registry, staticID("A"))
    /\ TripleOf(tables, "X") \cap TripleOf(tables, "Y") = {}
    /\ Nil \notin TripleOf(tables, "X") \cup TripleOf(tables, "Y")

\* the registry entry under the token in the signature field of mt is mt
SignatureRegistered(tb, mt) == RawGet(tb, Registry, RawGet(tb, mt, signature)) = mt

\* C15: after any sequence of registrations, for each of the three metatables
\* of every registered class the registry entry keyed by the token in its
\* signature field is that metatable, and no access to a class table or a
\* bound object is rejected as "metatable is invalid".  Fails once a class was
\* opened under two names (C14).
C15_SignaturesRegistered ==
    /\ \A n \in RegNames :
          ~IsNil(RawGet(tables, Module, Str(n))) =>
              \A mt \in TripleOf(tables, n) : SignatureRegistered(tables, mt)
    /\ last.op = "get" => last.msg # "metatable is invalid"

\* no class was opened under two names
OneNamePerClass == \A p, q \in call.names : p[1] = q[1] => p[2] = q[2]

\* the invariant holds as long as every class has one name
C15_HoldsWithOneName == OneNamePerClass => C15_SignaturesRegistered

\* a class table bound once was read: the access passed the signature check
C15_WitnessAccepted ==
    /\ last.op = "get"
    /\ last.st = "ok"
    /\ last.recv = Tbl("static", "X")
    /\ OneNamePerClass

\* the class table of the first name was read after the class was opened under
\* a second one: rejected
C15_WitnessRejected ==
    /\ last.op = "get"
    /\ last.recv = Tbl("static", "X")
    /\ last.msg = "metatable is invalid"

(***************************************************************************)
(* Native state seen through the bindings.  Class A is bound with a data   *)
(* member or property "m" and a static variable or property "m", the       *)
(* module has a variable "m"; native code holds the object at AddrOf("A")  *)
(* and has pushed it by pointer, by const pointer and by shared pointer.   *)
(* Native code assigns the variables, the script reads and writes them.    *)
(***************************************************************************)
DataClass == "A"

\* the static data: one per class, and the module-level global (owner "")
DataStatics == [T \in Classes \cup {""} |-> 0]

\* CppBindModuleMetaMethod::index: the getter registered for the key runs, a
\* key without getter reads as nil
CppBindModuleIndex(tb, w, stack) ==
    LET getter == RawGet(tb, RawGet(tb, Module, Str("___getters")), StackAt(stack, 2)) IN
    IF IsCFunction(getter) THEN Call(tb, w, getter, <<>>, FALSE) ELSE Ok(Nil, "", w)

\* the setter registered for the key has run (r)
SetterRan(r) == IF r.st = "ok" THEN [r EXCEPT !.val = Nil] ELSE r

\* CppBindModuleMetaMethod::newIndex: the setter registered for the key runs
\* on the value, a key without setter raises
CppBindModuleNewIndex(tb, w, stack) ==
    LET setter == RawGet(tb, RawGet(tb, Module, Str("___setters")), StackAt(stack, 2)) IN
    IF IsCFunction(setter) THEN SetterRan(Call(tb, w, setter, <<StackAt(stack, 3)>>, FALSE))
    ELSE Err("no writable module member", w)

\* CppBindModule::addVariable("m", &global): getter and setter closures over
\* the address of the variable, in the module's ___getters and ___setters
ModuleWithVariable(tb) ==
    LET g == Tbl("mgetters", "")
        s == Tbl("msetters", "")
        t1 == RawSet(RawSet(NewTables(tb, {g, s}), Module, Str("___getters"), g),
                     Module, Str("___setters"), s)
    IN RawSet(RawSet(t1, g, Str("m"), StaticVarGetFn("", "m")),
              s, Str("m"), StaticVarSetFn("", "m"))

\* addVariable("m", &A::x) or addProperty("m", &A::getX, &A::setX)
ClassWithMember(tb, asProperty) ==
    LET m == MetaFor(tb, DataClass) IN
    IF asProperty
    THEN setMemberSetter(setMemberGetter(tb, m, "m", MethodFn(DataClass, "get", "m", TRUE)),
                         m, "m", MethodFn(DataClass, "set", "m", FALSE))
    ELSE setMemberSetter(setMemberGetter(tb, m, "m", VarGetFn(DataClass, "m")),
                         m, "m", VarSetFn(DataClass, "m"))

\* addStaticVariable("m", &A::s) or addStaticProperty("m", &A::getS, &A::setS)
ClassWithStatic(tb, asProperty) ==
    LET m == MetaFor(tb, DataClass) IN
    IF asProperty
    THEN setStaticSetter(setStaticGetter(tb, m, "m", StaticMethodFn(DataClass, "get", "m")),
                         m, "m", StaticMethodFn(DataClass, "set", "m"))
    ELSE setStaticSetter(setStaticGetter(tb, m, "m", StaticVarGetFn(DataClass, "m")),
                         m, "m", StaticVarSetFn(DataClass, "m"))

NoAccess == [op |-> "none", recv |-> Nil, value |-> 0, st |-> "", val |-> Nil]

InitData ==
    /\ \E asProperty \in BOOLEAN :
          tables = ClassWithStatic(
                       ClassWithMember(
                           ModuleWithVariable(bind(InitTables, Module, DataClass, DataClass).tb),
                           asProperty),
                       asProperty)
    /\ decl = DeclareClass(<<>>, DataClass, "")
    /\ nmem = 0
    /\ objs = InitObjs
    /\ statics = DataStatics
    /\ heap = <<>>
    /\ last = NoOp
    /\ call = NoAccess
    /\ refs = NoRefs

\* what the script holds: the object pushed by pointer (or reference), by
\* const pointer and by shared pointer, the class table and the module
DataObjects ==
    {allocate(tables, DataClass, c, "ptr", AddrOf(DataClass), 0) : c \in BOOLEAN}
        \cup {allocate(tables, DataClass, FALSE, "shared", AddrOf(DataClass), 0)}
DataReceivers == DataObjects \cup {MetaFor(tables, DataClass), Module}

\* the native variable behind recv.m
NativeOf(recv) ==
    IF recv.t = "ud" THEN objs[recv.n].x
    ELSE IF recv = Module THEN statics[""] ELSE statics[DataClass]

\* native: obj->x = v
NativeAssignMember(v) ==
    /\ objs' = [objs EXCEPT ![AddrOf(DataClass)].x = v]
    /\ call' = [NoAccess EXCEPT !.op = "native"]
    /\ UNCHANGED <<tables, decl, nmem, statics, heap, last, refs>>

\* native: A::s = v, or global = v for owner ""
NativeAssignStatic(owner, v) ==
    /\ statics' = [statics EXCEPT ![owner] = v]
    /\ call' = [NoAccess EXCEPT !.op = "native"]
    /\ UNCHANGED <<tables, decl, nmem, objs, heap, last, refs>>

\* the access ran (r) on recv
Accessed(op, recv, value, r) ==
    /\ objs' = r.w.objs
    /\ statics' = r.w.statics
    /\ call' = [op |-> op, recv |-> recv, value |-> value, st |-> r.st, val |-> r.val]
    /\ UNCHANGED <<tables, decl, nmem, heap, last, refs>>

\* script: v = recv.m
DataRead ==
    \E recv \in DataReceivers :
        Accessed("read", recv, 0,
                 IF recv = Module THEN CppBindModuleIndex(tables, World, <<recv, Str("m")>>)
                 ELSE index(tables, World, <<recv, Str("m")>>, FALSE))

\* script: recv.m = v
DataWrite ==
    \E recv \in DataReceivers, v \in 0..MaxVal :
        Accessed("write", recv, v,
                 IF recv = Module
                 THEN CppBindModuleNewIndex(tables, World, <<recv, Str("m"), Num(v)>>)
                 ELSE newIndex(tables, World, <<recv, Str("m"), Num(v)>>, FALSE))

NextData ==
    \/ \E v \in 0..MaxVal : NativeAssignMember(v)
    \/ \E owner \in {DataClass, ""}, v \in 0..MaxVal : NativeAssignStatic(owner, v)
    \/ DataRead
    \/ DataWrite

SpecData == InitData /\ [][NextData]_vars

C16_WitnessWrite ==
    /\ call.op = "write"
    /\ call.st = "ok"
    /\ call.recv = Module
    /\ call.value = MaxVal
    /\ statics[""] = MaxVal

\* the script read the member through the shared-pushed object and the static
\* through the class table
C16_WitnessShared ==
    /\ call.op = "read"
    /\ call.st = "ok"
    /\ call.recv.t = "ud"
    /\ call.recv.c = "shared"
    /\ call.val = Num(MaxVal)

(***************************************************************************)
(* LuaRef: a native handle on a VM value, kept alive through the registry. *)
(* refs = [slot, free, freed, ref, stale]:                                 *)
(*   slot   the array part of the registry: slot[r] is registry[r]         *)
(*   free   registry[0] read as an integer: the head of the list of        *)
(*          released handles, 0 when there is none                         *)
(*   freed  ghost: the handles released and not acquired again             *)
(*   ref    the LuaRef objects native code has made: L (non-null), m_ref,  *)
(*          live (not destroyed), and ghost bound: the value it was last   *)
(*          bound to                                                       *)
(*   stale  ghost: lua_rawgeti was run on a released handle                *)
(*   self   ghost: a LuaRef was assigned to itself                         *)
(***************************************************************************)
LUA_NOREF == -2
LUA_REFNIL == -1

\* number of LuaRef objects native code makes
MaxRefs == 2

\* lua_tointeger on what registry[0] or a released slot holds
ToInteger(v) == IF v.t = "num" THEN v.n ELSE 0

\* lua_rawgeti(L, LUA_REGISTRYINDEX, ref): nil for an index without entry
lua_rawgeti(R, ref) == IF ref \in DOMAIN R.slot THEN R.slot[ref] ELSE Nil

\* luaL_ref(L, LUA_REGISTRYINDEX) on the value v: nil takes no slot, a released
\* handle is used again before the array grows.  Returns [R, r].
luaL_ref(R, v) ==
    IF IsNil(v) THEN [R |-> R, r |-> LUA_REFNIL]
    ELSE IF R.free # 0
    THEN [R |-> [R EXCEPT !.free = ToInteger(R.slot[R.free]),
                          !.slot[R.free] = v,
                          !.freed = @ \ {R.free}],
          r |-> R.free]
    ELSE [R |-> [R EXCEPT !.slot = Append(@, v)], r |-> Len(R.slot) + 1]

\* luaL_unref(L, LUA_REGISTRYINDEX, ref): registry[ref] = registry[0];
\* registry[0] = ref; nothing for LUA_NOREF and LUA_REFNIL
luaL_unref(R, ref) ==
    IF ref < 0 THEN R
    ELSE [R EXCEPT !.slot[ref] = IF R.free = 0 THEN Nil ELSE Num(R.free),
                   !.free = ref,
                   !.freed = @ \cup {ref}]

\* ghost: the read of handle ref goes through a released handle
ReadsReleased(R, ref) == R.stale \/ ref \in R.freed

LuaRefObject(L, m_ref, bound) == [L |-> L, m_ref |-> m_ref, live |-> TRUE, bound |-> bound]

\* R with the object made by a constructor added
WithNew(R, obj) == [R EXCEPT !.ref = Append(@, obj)]

\* explicit LuaRef(lua_State* state, int index): lua_pushvalue; luaL_ref
LuaRefFromStack(R, v) ==
    LET a == luaL_ref(R, v) IN WithNew(a.R, LuaRefObject(TRUE, a.r, v))

\* LuaRef(const LuaRef& that)
LuaRefCopy(R, that) ==
    LET a == luaL_ref(R, lua_rawgeti(R, R.ref[that].m_ref)) IN
    WithNew([a.R EXCEPT !.stale = ReadsReleased(R, R.ref[that].m_ref)],
            LuaRefObject(R.ref[that].L, a.r, R.ref[that].bound))

\* LuaRef(LuaRef&& that): takes L and m_ref, leaves LUA_NOREF in that
LuaRefMove(R, that) ==
    WithNew([R EXCEPT !.ref[that].m_ref = LUA_NOREF, !.ref[that].bound = Nil],
            LuaRefObject(R.ref[that].L, R.ref[that].m_ref, R.ref[that].bound))

\* ~LuaRef()
LuaRefDestroy(R, this) ==
    [(IF R.ref[this].L THEN luaL_unref(R, R.ref[this].m_ref) ELSE R)
        EXCEPT !.ref[this].live = FALSE]

\* as operator = (const LuaRef&), returning at once when that is this
LuaRefAssignGuarded(R, this, that) ==
    IF this = that THEN R
    ELSE LET R1 == IF R.ref[this].L THEN luaL_unref(R, R.ref[this].m_ref) ELSE R
             a == luaL_ref(R1, lua_rawgeti(R1, R1.ref[that].m_ref))
         IN [a.R EXCEPT !.stale = ReadsReleased(R1, R1.ref[that].m_ref),
                        !.ref[this].L = R1.ref[that].L,
                        !.ref[this].m_ref = a.r,
                        !.ref[this].bound = R.ref[that].bound]

\* LuaRef& operator = (const LuaRef& that): the own handle is released first,
\* then that.m_ref is read and registered again
LuaRefAssign(R, this, that) ==
    LET R1 == IF R.ref[this].L THEN luaL_unref(R, R.ref[this].m_ref) ELSE R
        a == luaL_ref(R1, lua_rawgeti(R1, R1.ref[that].m_ref))
    IN [a.R EXCEPT !.stale = ReadsReleased(R1, R1.ref[that].m_ref),
                   !.ref[this].L = R1.ref[that].L,
                   !.ref[this].m_ref = a.r,
                   !.ref[this].bound = R.ref[that].bound]

\* LuaRef& operator = (LuaRef&& that): L and m_ref are swapped
LuaRefMoveAssign(R, this, that) ==
    [R EXCEPT !.ref[this] = R.ref[that], !.ref[that] = R.ref[this]]

InitRef ==
    /\ tables = InitTables
    /\ decl = <<>>
    /\ nmem = 0
    /\ objs = InitObjs
    /\ statics = InitStatics
    /\ heap = <<>>
    /\ last = NoOp
    /\ call = NoCall
    /\ refs = NoRefs

\* the values the script leaves on the stack for native code to keep
RefValues == {Str("a"), Str("b")}

\* the LuaRef objects in scope
LiveRefs == {k \in DOMAIN refs.ref : refs.ref[k].live}

RefStep(op, R) ==
    /\ refs' = R
    /\ call' = [op |-> op]
    /\ UNCHANGED <<tables, decl, nmem, objs, statics, heap, last>>

\* native: LuaRef r(L, index)
RefConstruct ==
    /\ Len(refs.ref) < MaxRefs
    /\ \E v \in RefValues : RefStep("construct", LuaRefFromStack(refs, v))

\* native: LuaRef r(that)
RefCopyConstruct ==
    /\ Len(refs.ref) < MaxRefs
    /\ \E that \in LiveRefs : RefStep("copy", LuaRefCopy(refs, that))

\* native: LuaRef r(std::move(that))
RefMoveConstruct ==
    /\ Len(refs.ref) < MaxRefs
    /\ \E that \in LiveRefs : RefStep("move", LuaRefMove(refs, that))

\* native: a = b, or a = a
RefCopyAssign ==
    \E this \in LiveRefs, that \in LiveRefs :
        RefStep(IF this = that THEN "selfassign" ELSE "assign",
                [LuaRefAssign(refs, this, that) EXCEPT !.self = @ \/ this = that])

\* native: a = std::move(b)
RefMoveAssign ==
    \E this \in LiveRefs, that \in LiveRefs :
        RefStep("moveassign", LuaRefMoveAssign(refs, this, that))

\* native: the LuaRef goes out of scope
RefDestroy ==
    \E this \in LiveRefs : RefStep("destroy", LuaRefDestroy(refs, this))

NextRef ==
    \/ RefConstruct
    \/ RefCopyConstruct
    \/ RefMoveConstruct
    \/ RefCopyAssign
    \/ RefMoveAssign
    \/ RefDestroy

SpecRef == InitRef /\ [][NextRef]_vars

\* a LuaRef that refers to something: in scope and not moved from
ValidRefs == {k \in LiveRefs : refs.ref[k].m_ref # LUA_NOREF}

\* those that need a handle: a reference to nil is LUA_REFNIL, without a slot
HandleRefs == {k \in ValidRefs : refs.ref[k].m_ref # LUA_REFNIL}

\* the value the LuaRef gives when pushed
ValueOf(k) == lua_rawgeti(refs, refs.ref[k].m_ref)

\* the handles that are acquired: slots of the registry not released
HeldHandles == DOMAIN refs.slot \ refs.freed

\* every valid LuaRef holds the value it was last bound to, through a handle
\* no other LuaRef has; every handle acquired and not released belongs to a
\* LuaRef in scope; no read went through a released handle
RefsSound ==
    /\ \A k \in ValidRefs : ValueOf(k) = refs.ref[k].bound
    /\ \A k \in HandleRefs :
          /\ refs.ref[k].m_ref \in HeldHandles
          /\ \A j \in HandleRefs \ {k} : refs.ref[j].m_ref # refs.ref[k].m_ref
    /\ HeldHandles = {refs.ref[k].m_ref : k \in HandleRefs}
    /\ ~refs.stale

\* C20: after any sequence of construction from a stack value, copy and move
\* construction, copy assignment (self-assignment included), move assignment
\* and destruction, every valid LuaRef refers to the value it was last bound to
\* through a handle it alone owns, each handle is released exactly once and
\* none is read after its release.  Fails for a = a.
C20_RefsSound == RefsSound

\* a self-assignment has been made (its effects stay in the registry)
SelfAssigned == refs.self

\* without self-assignment the handles are sound
C20_SoundWithoutSelfAssignment == ~SelfAssigned => RefsSound

\* one of two copies of a value was destroyed: its handle is released and the
\* other copy still holds the value
C20_WitnessCopies ==
    /\ call.op = "destroy"
    /\ ~SelfAssigned
    /\ \E k \in ValidRefs, j \in DOMAIN refs.ref :
          /\ ~refs.ref[j].live
          /\ refs.ref[j].bound = Str("a")
          /\ refs.ref[j].m_ref \in refs.freed
          /\ ValueOf(k) = Str("a")
    /\ RefsSound

\* after a = a the LuaRef no longer holds its value
C20_WitnessSelfAssignment ==
    /\ call.op = "selfassign"
    /\ \E k \in ValidRefs : ValueOf(k) # refs.ref[k].bound

(***************************************************************************)
(* Claim C22: the type names in the mismatch error of object retrieval     *)
(***************************************************************************)
\* getObject was given a userdata for a class that is bound, and raised
ClassMismatch ==
    /\ last.op = "getObject"
    /\ IsUserdata(last.recv)
    /\ IsRegistered(tables, last.fn.b)
    /\ last.st = "error"

\* the name the message has to give for the value at the index: the class of a
\* bound object, the dynamic type name of any other value
ActualName(v) == IF IsInstance(v) THEN ClassOf(v) ELSE lua_typename(v)

\* the class a "___type" string names, or the type name lua_typename gave
NamedBy(s) == IF s.t = "str" THEN (IF s.b = "" THEN s.a ELSE s.b) ELSE ""

MismatchNamesClasses ==
    ClassMismatch =>
        /\ NamedBy(last.exp) = last.fn.b
        /\ NamedBy(last.act) = ActualName(last.recv)

\* C22: when object retrieval fails on a class mismatch, the error message
\* names the expected class and the actual class of the object at the index
\* (the dynamic type name when the value is no bound object), also when the
\* mismatch is found only after walking ___super links.
C22_MismatchNamesClasses == MismatchNamesClasses

\* the message is right when the object's class has no superclass and the
\* value carries the metatable of a bound class
C22_HoldsWithoutSuperWalk ==
    (ClassMismatch /\ IsInstance(last.recv) /\ ParentOf(ClassOf(last.recv)) = "") =>
        /\ NamedBy(last.exp) = last.fn.b
        /\ NamedBy(last.act) = ActualName(last.recv)

\* an instance of a root class was refused with both names in the message
C22_WitnessRoot ==
    /\ ClassMismatch
    /\ IsInstance(last.recv)
    /\ ParentOf(ClassOf(last.recv)) = ""
    /\ last.fn.b # ClassOf(last.recv)
    /\ NamedBy(last.exp) = last.fn.b
    /\ NamedBy(last.act) = ClassOf(last.recv)

\* an instance of a derived class was refused after the walk: the message
\* gives the name of its root ancestor
C22_WitnessAfterWalk ==
    /\ ClassMismatch
    /\ IsInstance(last.recv)
    /\ ParentOf(ClassOf(last.recv)) # ""
    /\ NamedBy(last.act) # ClassOf(last.recv)
    /\ NamedBy(last.act) \in Lineage(ClassOf(last.recv))

(***************************************************************************)
(* Member lookup over a chain of two classes, A <- B, with several members *)
(* registered under one name.  call.regs is the ghost of the registrations *)
(* made: <<class, scope, slot>> -> the function registered, scope "member" *)
(* or "static", slot "direct" (stored in the metatable) or "getter".       *)
(***************************************************************************)
\* number of member registrations made before the script looks a key up
MaxLookup == 2

LookupClasses == {"A", "B"}

InitLookup ==
    /\ tables = extend(bind(InitTables, Module, "A", "A").tb, Module, "B", "B",
                       staticID("A")).tb
    /\ decl = DeclareClass(DeclareClass(<<>>, "A", ""), "B", "A")
    /\ nmem = 0
    /\ objs = [p \in DOMAIN InitObjs |->
                 [InitObjs[p] EXCEPT !.x = IF p = AddrOf("B") THEN MaxVal ELSE 0]]
    /\ statics = [T \in Classes |-> IF T = "B" THEN MaxVal ELSE 0]
    /\ heap = <<>>
    /\ last = NoOp
    /\ call = [regs |-> <<>>]
    /\ refs = NoRefs

\* the registration of fn for class T fills a slot nothing was registered in
LookupRegister(T, scope, slot, fn, tb) ==
    /\ Idle
    /\ nmem < MaxLookup
    /\ <<T, scope, slot>> \notin DOMAIN call.regs
    /\ tables' = tb
    /\ call' = [regs |-> (<<T, scope, slot>> :> fn) @@ call.regs]
    /\ nmem' = nmem + 1
    /\ UNCHANGED <<decl, objs, statics, heap, last, refs>>

\* CppBindClass<T>::addFunction("m", proc)
LookupAddFunction(T, is_const) ==
    LET fn == MethodFn(T, IF is_const THEN "read" ELSE "mutate", "m", is_const) IN
    LookupRegister(T, "member", "direct", fn,
                   setMemberFunction(tables, MetaFor(tables, T), "m", fn, is_const))

\* CppBindClass<T>::addVariable("m", &T::x)
LookupAddVariable(T) ==
    LET m == MetaFor(tables, T) IN
    LookupRegister(T, "member", "getter", VarGetFn(T, "m"),
                   setMemberSetter(setMemberGetter(tables, m, "m", VarGetFn(T, "m")),
                                   m, "m", VarSetFn(T, "m")))

\* CppBindClass<T>::addStaticFunction("m", proc)
LookupAddStaticFunction(T) ==
    LookupRegister(T, "static", "direct", StaticMethodFn(T, "fn", "m"),
                   RawSet(tables, MetaFor(tables, T), Str("m"), StaticMethodFn(T, "fn", "m")))

\* CppBindClass<T>::addStaticVariable("m", &T::s)
LookupAddStaticVariable(T) ==
    LET m == MetaFor(tables, T) IN
    LookupRegister(T, "static", "getter", StaticVarGetFn(T, "m"),
                   setStaticSetter(setStaticGetter(tables, m, "m", StaticVarGetFn(T, "m")),
                                   m, "m", StaticVarSetFn(T, "m")))

\* script: v = recv[key], on an instance or on a class table
LookupGet ==
    /\ Idle
    /\ \E recv \in PushedPointers(tables) \cup ClassTables(tables), key \in {Str("m"), Str("u")} :
          /\ objs' = objs
          /\ statics' = statics
          /\ heap' = heap
          /\ last' = Record("get", Nil, Nil, recv, key, Nil,
                            index(tables, World, <<recv, key>>, FALSE))
          /\ UNCHANGED <<tables, decl, nmem, aux>>

NextLookup ==
    \/ \E T \in LookupClasses, c \in BOOLEAN : LookupAddFunction(T, c)
    \/ \E T \in LookupClasses : LookupAddVariable(T)
    \/ \E T \in LookupClasses : LookupAddStaticFunction(T)
    \/ \E T \in LookupClasses : LookupAddStaticVariable(T)
    \/ LookupGet

SpecLookup == InitLookup /\ [][NextLookup]_vars

(***************************************************************************)
(* Claim C25: where member lookup resolves a key                           *)
(***************************************************************************)
IsLookup == last.op = "get" /\ "regs" \in DOMAIN call

ScopeOf(recv) == IF IsUserdata(recv) THEN "member" ELSE "static"

\* class T defines the key for receivers of the scope
Defines(T, scope, key) ==
    /\ key = Str("m")
    /\ \E slot \in {"direct", "getter"} : <<T, scope, slot>> \in DOMAIN call.regs

RECURSIVE NearestDefining(_, _, _)
\* the receiver's own class first, then each superclass in order; "" if none
NearestDefining(T, scope, key) ==
    IF T = "" THEN ""
    ELSE IF Defines(T, scope, key) THEN T
    ELSE NearestDefining(ParentOf(T), scope, key)

\* what a const-tagged receiver finds stored for a function that is not const
StoredFor(recv, fn) ==
    IF IsConstTagged(recv) /\ fn.n = 0 /\ fn.a = "ClassMethod" THEN ErrConstFn("m") ELSE fn

\* the outcome of the lookup the claim describes
ResolvesAtNearest ==
    LET recv == last.recv
        scope == ScopeOf(recv)
        T == NearestDefining(ClassOf(recv), scope, last.key)
    IN IF T = "" THEN last.st = "ok" /\ IsNil(last.val) /\ last.ran = ""
       ELSE IF <<T, scope, "direct">> \in DOMAIN call.regs
       THEN /\ last.st = "ok"
            /\ last.ran = ""
            /\ last.val = StoredFor(recv, call.regs[<<T, scope, "direct">>])
       ELSE LET r == Call(tables, World, call.regs[<<T, scope, "getter">>],
                          IF IsUserdata(recv) THEN <<recv>> ELSE <<>>, FALSE)
            IN /\ last.st = r.st
               /\ last.val = r.val
               /\ last.ran = r.ran
               /\ last.msg = r.msg

\* C25: member lookup resolves a key at the nearest class of the chain that
\* defines it (own class first, then each ___super in order); within a class a
\* directly stored entry wins over a getter of the same name; a getter is
\* called with the receiver as its only argument for a userdata and with no
\* argument for a table, and the lookup returns exactly the getter's result.
C25_ResolvesAtNearest == IsLookup => ResolvesAtNearest

\* B has a getter and a function of the same name: the function is returned
C25_Witness ==
    /\ IsLookup
    /\ IsMutable(last.recv)
    /\ ClassOf(last.recv) = "B"
    /\ <<"B", "member", "direct">> \in DOMAIN call.regs
    /\ <<"B", "member", "getter">> \in DOMAIN call.regs
    /\ last.val = call.regs[<<"B", "member", "direct">>]

\* A has a function and B a getter: an instance of B gets the value of its own
\* field from the getter of B
C25_WitnessNearest ==
    /\ IsLookup
    /\ IsInstance(last.recv)
    /\ ClassOf(last.recv) = "B"
    /\ <<"A", "member", "direct">> \in DOMAIN call.regs
    /\ <<"B", "member", "getter">> \in DOMAIN call.regs
    /\ last.ran = "get"
    /\ last.val = Num(MaxVal)

\* the static getter of A, found through the class table of B, is called
\* without argument
C25_WitnessTable ==
    /\ IsLookup
    /\ IsClassTable(last.recv)
    /\ ClassOf(last.recv) = "B"
    /\ DOMAIN call.regs = {<<"A", "static", "getter">>}
    /\ last.key = Str("m")
    /\ last.st = "ok"
    /\ last.val = Num(0)

(***************************************************************************)
(* The ___super chains.  The binding code opens classes A and B under the  *)
(* names X and Y with any class as the superclass (the templates accept    *)
(* every pair of types); the script then reads a key no class defines, and *)
(* the loop of index walks the chain one metatable per step.               *)
(* call = [n, selfext, cur, walk]: registrations made, ghost: a class was  *)
(* opened with itself as superclass, the metatable the walk is at (None    *)
(* before the walk, nil at its end), the ___super links followed.          *)
(***************************************************************************)
\* number of beginClass / beginExtendClass calls explored
MaxChain == 2
\* the walk is cut off after this many links: more than any chain can have
MaxWalk == MaxChain + 2

InitChain ==
    /\ tables = InitTables
    /\ decl = <<>>
    /\ nmem = 0
    /\ objs = InitObjs
    /\ statics = InitStatics
    /\ heap = <<>>
    /\ last = NoOp
    /\ call = [n |-> 0, selfext |-> FALSE, cur |-> None, walk |-> 0]
    /\ refs = NoRefs

ChainRegistered(tb, selfext) ==
    /\ call.cur = None
    /\ call.n < MaxChain
    /\ tables' = tb
    /\ call' = [call EXCEPT !.n = @ + 1, !.selfext = @ \/ selfext]
    /\ UNCHANGED <<decl, nmem, objs, statics, heap, last, refs>>

\* CppBindModule::beginClass<T>(name)
ChainBeginClass(T, name) ==
    ChainRegistered(bind(tables, Module, name, T).tb, FALSE)

\* CppBindModule::beginExtendClass<T, SUPER>(name): SUPER has been bound, or
\* is T itself, whose tokens buildMetaTable registers before the link is made
ChainBeginExtendClass(T, S, name) ==
    /\ IsRegistered(tables, S) \/ S = T
    /\ ChainRegistered(extend(tables, Module, name, T, staticID(S)).tb,
                       S = T /\ IsNil(RawGet(tables, Module, Str(name))))

\* script: v = Class.u; index passed the signature check and starts its loop
\* at the metatable of the class table
ChainWalkStart ==
    /\ call.cur = None
    /\ \E n \in RegNames :
          /\ ~IsNil(RawGet(tables, Module, Str(n)))
          /\ call' = [call EXCEPT !.cur = RawGet(tables, Module, Str(n))]
    /\ UNCHANGED <<tables, decl, nmem, objs, statics, heap, last, refs>>

\* one turn of the loop of index for a key found neither in the metatable nor
\* in its ___getters: the metatable is replaced by its ___super
ChainWalkStep ==
    /\ IsTable(call.cur)
    /\ call.walk < MaxWalk
    /\ call' = [call EXCEPT !.cur = RawGet(tables, call.cur, Str("___super")),
                            !.walk = @ + 1]
    /\ UNCHANGED <<tables, decl, nmem, objs, statics, heap, last, refs>>

NextChain ==
    \/ \E T \in RegClasses, n \in RegNames : ChainBeginClass(T, n)
    \/ \E T \in RegClasses, S \in RegClasses, n \in RegNames : ChainBeginExtendClass(T, S, n)
    \/ ChainWalkStart
    \/ ChainWalkStep

SpecChain == InitChain /\ [][NextChain]_vars

(***************************************************************************)
(* Claim C26: the ___super chains are finite                               *)
(***************************************************************************)
\* the metatables of the bound classes
ClassMetatables == {t \in DOMAIN tables : t.t = "table" /\ t.a \in {"static", "class", "const"}}

RECURSIVE ChainEnds(_, _)
\* following ___super from mt reaches a metatable without the link within
\* fuel steps
ChainEnds(mt, fuel) ==
    IF IsNil(mt) THEN TRUE
    ELSE IF fuel = 0 THEN FALSE
    ELSE ChainEnds(RawGet(tables, mt, Str("___super")), fuel - 1)

SuperChainsEnd ==
    /\ \A mt \in ClassMetatables : ChainEnds(mt, Cardinality(ClassMetatables))
    /\ "walk" \in DOMAIN call => call.walk <= call.n

\* C26: after any sequence of beginClass / beginExtendClass registrations the
\* ___super chain from any class metatable is finite and acyclic and ends at
\* a class without superclass link, so the walks of member lookup, member
\* assignment and getObject terminate.
C26_SuperChainsEnd == SuperChainsEnd

\* the chains end when no class is opened with itself as superclass
C26_HoldsWithoutSelfExtension ==
    ("selfext" \in DOMAIN call /\ ~call.selfext) => SuperChainsEnd

\* B was opened as a subclass of A and the walk from B ended after two turns
C26_WitnessWalked ==
    /\ "walk" \in DOMAIN call
    /\ ~call.selfext
    /\ call.walk = 2
    /\ IsNil(call.cur)

\* a class opened with itself as superclass: its metatable is its own ___super
C26_WitnessSelfLink ==
    /\ "walk" \in DOMAIN call
    /\ \E mt \in ClassMetatables : RawGet(tables, mt, Str("___super")) = mt
    /\ call.walk > call.n

(***************************************************************************)
(* Claim C28: instance getters read through const-tagged instances         *)
(***************************************************************************)
\* the script read, through an instance, a name registered in its lineage as
\* a data member or a property and as nothing else
GetterRead ==
    /\ last.op = "get"
    /\ IsInstance(last.recv)
    /\ NearestIn("member", ClassOf(last.recv), last.key.a) # ""
    /\ \A U \in Lineage(ClassOf(last.recv)) : ~Declared("function", U, last.key.a)

\* the read ran the getter and gave the value of the member of the receiver
GetterGaveValue ==
    /\ last.st = "ok"
    /\ last.ran = "get"
    /\ last.val = Num(ReadField(World, last.recv))

\* C28: every instance getter (a data member of addVariable, a property of
\* addProperty with a const member-function getter or with a proxy taking
\* const T*) can be read through a const-tagged instance as through a mutable
\* one, and gives the same value through both.
C28_GettersReadThroughConst == GetterRead => GetterGaveValue

\* what the code keeps: data members and proxy properties through any
\* instance, member-function properties through mutable instances
C28_HoldsButMemberFunctionGetter ==
    (/\ GetterRead
     /\ \/ IsMutable(last.recv)
        \/ KindOf("member", ClassOf(last.recv), last.key.a) # "property")
    => GetterGaveValue

\* a data member was read through a const-tagged instance
C28_WitnessVariable ==
    /\ GetterRead
    /\ IsConstTagged(last.recv)
    /\ KindOf("member", ClassOf(last.recv), last.key.a) = "variable"
    /\ GetterGaveValue

\* a property with a const member-function getter was read through a
\* const-tagged instance of the class that registers it, and the read raised
C28_WitnessProperty ==
    /\ GetterRead
    /\ IsConstTagged(last.recv)
    /\ Declared("member", ClassOf(last.recv), last.key.a)
    /\ KindOf("member", ClassOf(last.recv), last.key.a) = "property"
    /\ last.st = "error"
    /\ last.msg = "type mismatch"

(***************************************************************************)
(* Bound constructors that throw.  The script calls Class(1), bound with   *)
(* addConstructor(LUA_ARGS(int)) (the object is constructed inside the     *)
(* userdata block); the native constructor returns or throws.  The script  *)
(* drops the objects it got and the collector finalizes unreachable        *)
(* blocks.  objs[p].kind is "unconstructed" for the storage of a block in  *)
(* which no constructor ran to its end.                                    *)
(***************************************************************************)
InitCtor ==
    /\ tables = bind(InitTables, Module, LifeClass, LifeClass).tb
    /\ decl = DeclareClass(<<>>, LifeClass, "")
    /\ nmem = 0
    /\ objs = <<>>
    /\ statics = InitStatics
    /\ heap = <<>>
    /\ last = NoOp
    /\ call = [op |-> "none", threw |-> FALSE, st |-> "", arg |-> 0]
    /\ refs = NoRefs

\* the storage m_data of a CppObjectValue in which T's constructor threw
Unconstructed == [NewObject("value") EXCEPT !.kind = "unconstructed", !.alive = FALSE]

\* res is what CppBindClassConstructor::call gave for the argument x: the block
\* it allocated stays in the VM; the script gets it only when the call returned
Constructed(res, threw, x) ==
    /\ call' = [op |-> "ctor", threw |-> threw, st |-> res.st, arg |-> x]
    /\ heap' = IF res.blocks = 0 THEN heap
               ELSE Append(heap, [NewBlock(allocate(tables, LifeClass, FALSE, "value",
                                                    Len(objs) + 1, Len(heap) + 1))
                                     EXCEPT !.reachable = (res.st = "ok")])
    /\ objs' = IF res.blocks = 0 THEN objs
               ELSE Append(objs, IF res.st = "ok" THEN [NewObject("value") EXCEPT !.x = x]
                                 ELSE Unconstructed)
    /\ UNCHANGED <<tables, decl, nmem, statics, last, refs>>

\* script: obj = Class(x); the constructor returns
CtorReturns(x) ==
    /\ Len(heap) < MaxBlocks
    /\ LET fnc == Quiet("ctor", <<Param("in", "int")>>, Void, 0, FALSE, "value") IN
       Constructed(CppBindClassConstructorCall(tables, fnc,
                       <<MetaFor(tables, LifeClass), Num(x)>>), FALSE, x)

\* script: obj = Class(x); the conversion of the argument or the constructor
\* throws a std::exception or something else
CtorThrows(x, at, kind) ==
    /\ Len(heap) < MaxBlocks
    /\ LET fnc == Callable("ctor", <<Param("in", "int")>>, Void, 0, at, kind,
                           FALSE, FALSE, "value") IN
       Constructed(CppBindClassConstructorCall(tables, fnc,
                       <<MetaFor(tables, LifeClass), Num(x)>>), TRUE, x)

\* script: obj = nil
CtorUnref(b) ==
    /\ Unref(b)

\* the collector finalizes an unreachable block through "__gc"
CtorCollect(b, again) ==
    /\ Collect(b, again)

NextCtor ==
    \/ \E x \in 0..MaxVal : CtorReturns(x)
    \/ \E x \in 0..MaxVal, at \in ThrowPlaces("ctor"), kind \in {"std", "other"} :
          CtorThrows(x, at, kind)
    \/ \E b \in DOMAIN heap : CtorUnref(b)
    \/ \E b \in DOMAIN heap, again \in BOOLEAN : CtorCollect(b, again)

SpecCtor == InitCtor /\ [][NextCtor]_vars

(***************************************************************************)
(* Claim C27: no destructor on an object whose constructor threw           *)
(***************************************************************************)
IsCtor == "threw" \in DOMAIN call

\* C27: if the native constructor run by a bound constructor throws, the
\* script sees a raised error and the destructor of the native type never
\* runs on the block allocated for the object, neither at once nor at a later
\* collection: a native destructor only runs on a fully constructed object.
C27_NoDestructorOnUnconstructed ==
    IsCtor =>
        /\ (call.op = "ctor" /\ call.threw) => call.st = "error"
        /\ \A p \in DOMAIN objs : objs[p].kind = "unconstructed" => objs[p].dtors = 0

\* the part the code keeps: a std::exception is raised as an error, and a
\* constructed object is destroyed once, at the collection of its block
C27_ConstructedDestroyedOnce ==
    IsCtor =>
        /\ (call.op = "ctor" /\ call.threw /\ call.st # "unwound") => call.st = "error"
        /\ \A b \in DOMAIN heap :
              objs[heap[b].val.n].kind = "value" =>
                  objs[heap[b].val.n].dtors = (IF heap[b].finalized THEN 1 ELSE 0)

\* the block of a constructor that threw was collected: ~T ran on its storage
C27_WitnessCollected ==
    /\ IsCtor
    /\ \E b \in DOMAIN heap :
          /\ heap[b].finalized
          /\ objs[heap[b].val.n].kind = "unconstructed"
          /\ objs[heap[b].val.n].dtors = 1

\* a constructor threw std::exception and the script got the error
C27_WitnessRaised ==
    /\ IsCtor
    /\ call.op = "ctor" /\ call.threw /\ call.st = "error"
    /\ \E b \in DOMAIN heap : ~heap[b].reachable /\ ~heap[b].finalized

(***************************************************************************)
(* Conversions of strings and scalars (LuaType.h), on values the other     *)
(* models leave abstract: a string is the sequence of its bytes (0 is NUL) *)
(* together with its length, a number is an integer of a given width.      *)
(* A slot of the stack holds [t, bytes, n]: t is "none", "nil", "string",  *)
(* "number" or "boolean".                                                  *)
(* call = [op, type, v, def, slot, out]: the conversion made, the native   *)
(* type, the native input, the default, the slot read and the outcome      *)
(* [st, v].                                                                *)
(***************************************************************************)
\* strings have up to MaxLen bytes, each in 0..MaxByte
MaxLen == 3
MaxByte == 1

SlotNone == [t |-> "none", bytes |-> <<>>, n |-> 0]
SlotNil == [t |-> "nil", bytes |-> <<>>, n |-> 0]
SlotString(bytes) == [t |-> "string", bytes |-> bytes, n |-> 0]
SlotNumber(n) == [t |-> "number", bytes |-> <<>>, n |-> n]
SlotBoolean(b) == [t |-> "boolean", bytes |-> <<>>, n |-> IF b THEN 1 ELSE 0]

ByteStrings == UNION {[1..k -> 0..MaxByte] : k \in 0..MaxLen}

RECURSIVE strlen(_)
\* the number of bytes before the first NUL (the buffer ends with one)
strlen(s) == IF s = <<>> \/ s[1] = 0 THEN 0 ELSE 1 + strlen(Tail(s))

\* std::string(p, len) and lua_pushlstring(L, p, len): len bytes from p
Bytes(p, len) == SubSeq(p, 1, len)

ConvOk(v) == [st |-> "ok", v |-> v]
ConvErr == [st |-> "error", v |-> <<>>]

\* LuaValueType<std::string>::push: lua_pushlstring(L, str.data(), str.length())
StdStringPush(str) == SlotString(Bytes(str, Len(str)))

\* LuaValueType<std::string>::get: luaL_checklstring(L, index, &len), then
\* std::string(p, len)
StdStringGet(slot) ==
    IF slot.t = "string" THEN ConvOk(Bytes(slot.bytes, Len(slot.bytes))) ELSE ConvErr

\* LuaValueType<std::string>::opt: luaL_optlstring(L, index, def.c_str(), &len)
\* gives def.c_str() with len = strlen of it for a slot that is none or nil
StdStringOpt(slot, def) ==
    IF slot.t \in {"none", "nil"} THEN ConvOk(Bytes(def, strlen(def)))
    ELSE StdStringGet(slot)

\* LuaValueType<LuaString>::push: lua_pushlstring(L, str.data, str.size)
\* (a LuaString made from a std::string; data is not null)
LuaStringPush(str) == SlotString(Bytes(str, Len(str)))

\* LuaValueType<LuaString>::get: LuaString(L, index), data and size from
\* luaL_checklstring
LuaStringGet(slot) ==
    IF slot.t = "string" THEN ConvOk(Bytes(slot.bytes, Len(slot.bytes))) ELSE ConvErr

\* LuaValueType<LuaString>::opt: def itself for a slot that is none or nil
LuaStringOpt(slot, def) ==
    IF slot.t \in {"none", "nil"} THEN ConvOk(def) ELSE LuaStringGet(slot)

StringTypes == {"std::string", "LuaString"}

NoConv == [op |-> "none", type |-> "", v |-> <<>>, def |-> <<>>, slot |-> SlotNone,
           out |-> ConvErr]

InitConv ==
    /\ tables = InitTables
    /\ decl = <<>>
    /\ nmem = 0
    /\ objs = InitObjs
    /\ statics = InitStatics
    /\ heap = <<>>
    /\ last = NoOp
    /\ call = NoConv
    /\ refs = NoRefs

Converted23(op, type, v, def, slot, out) ==
    /\ call.op = "none"
    /\ call' = [op |-> op, type |-> type, v |-> v, def |-> def, slot |-> slot, out |-> out]
    /\ UNCHANGED <<tables, decl, nmem, objs, statics, heap, last, refs>>

\* native: Lua::push(L, v); Lua::get<T>(L, -1) for a string type
StringPushGet(type, v) ==
    LET slot == IF type = "LuaString" THEN LuaStringPush(v) ELSE StdStringPush(v) IN
    Converted23("pushget", type, v, <<>>, slot,
                IF type = "LuaString" THEN LuaStringGet(slot) ELSE StdStringGet(slot))

\* native: Lua::opt<T>(L, index, def) for a string type
StringOpt(type, slot, def) ==
    Converted23("opt", type, <<>>, def, slot,
                IF type = "LuaString" THEN LuaStringOpt(slot, def)
                ELSE StdStringOpt(slot, def))

(***************************************************************************)
(* Scalars.  The widths are scaled down and keep the order they have in    *)
(* the builds: mantissa of float (24) < int and the lua_Unsigned of        *)
(* Lua 5.2 (32) < mantissa of lua_Number (53) < long long and the          *)
(* lua_Integer (64).  float and double values are the integral ones.       *)
(* A build is the Lua version the header is compiled against (the 5.2 API  *)
(* lua_pushunsigned, which 5.3 keeps as a macro) and the width of long.    *)
(***************************************************************************)
ScaleBits == 2
FloatBits == ScaleBits - 1
IntBits == ScaleBits
MantBits == ScaleBits + 1
WideBits == 2 * ScaleBits + 1

LuaVersions == {"5.2", "5.3"}
LongWidths == {IntBits, WideBits}

RECURSIVE Pow2(_)
Pow2(n) == IF n = 0 THEN 1 ELSE 2 * Pow2(n - 1)

Signed(w) == (0 - Pow2(w - 1))..(Pow2(w - 1) - 1)
Unsigned(w) == 0..(Pow2(w) - 1)

\* static_cast to an integer type of w bits: the value modulo 2^w
Wrap(n, w, signed) ==
    LET m == n % Pow2(w) IN
    IF signed /\ m >= Pow2(w - 1) THEN m - Pow2(w) ELSE m

RECURSIVE Excess(_, _)
\* how many low bits of v >= 0 do not fit in m significant bits
Excess(v, m) == IF v < Pow2(m) THEN 0 ELSE 1 + Excess(v \div 2, m)

\* v >= 0 rounded to m significant bits, ties to even
RoundMag(v, m) ==
    LET q == Pow2(Excess(v, m))
        lo == v % q
        base == v - lo
    IN  IF 2 * lo > q \/ (2 * lo = q /\ (base \div q) % 2 = 1) THEN base + q ELSE base

\* static_cast to a floating type of m mantissa bits
RoundTo(v, m) == IF v < 0 THEN 0 - RoundMag(0 - v, m) ELSE RoundMag(v, m)

\* static_cast of a number to an integer type of w bits: the value when it
\* is in range, undefined otherwise
Truncate(n, w, signed) ==
    LET range == IF signed THEN Signed(w) ELSE Unsigned(w) IN
    IF n \in range THEN {n} ELSE range

ScalarTypes ==
    {"bool", "char", "unsigned char", "short", "unsigned short", "int", "unsigned int",
     "long", "unsigned long", "float", "double", "long long", "unsigned long long"}

\* the LUA_VALUE each type is registered with (LUA_USING_VALUE_TYPE_EXT)
LuaValueOf(type) ==
    CASE type \in {"unsigned char", "short", "unsigned short", "int", "long"} -> "lua_Integer"
      [] type \in {"unsigned int", "unsigned long"} -> "lua_Unsigned"
      [] type \in {"float", "double"} -> "lua_Number"
      [] type \in {"long long", "unsigned long long"} -> "LuaUnsafeInt64Type"
      [] OTHER -> type

IsSigned(type) == type \in {"short", "int", "long", "long long", "float", "double"}

\* bits of the value of a type: of the integer, or of the mantissa
Width(type, longbits) ==
    CASE type \in {"long", "unsigned long"} -> longbits
      [] type \in {"long long", "unsigned long long"} -> WideBits
      [] type = "float" -> FloatBits
      [] type = "double" -> MantBits
      [] OTHER -> IntBits

\* every value representable in a type
ValuesOf(type, longbits) ==
    CASE type = "bool" -> {0, 1}
      [] type = "char" -> 0..MaxByte
      [] type \in {"float", "double"} ->
            {RoundTo(n, Width(type, longbits)) : n \in Signed(WideBits)}
      [] OTHER -> IF IsSigned(type) THEN Signed(Width(type, longbits))
                  ELSE Unsigned(Width(type, longbits))

\* bits of lua_Unsigned: 32 in Lua 5.2, those of lua_Integer in 5.3
UnsignedBits(lua) == IF lua = "5.2" THEN IntBits ELSE WideBits

\* lua_pushinteger: Lua 5.2 stores the lua_Number of it, 5.3 the integer
lua_pushinteger(lua, n) ==
    IF lua = "5.2" THEN SlotNumber(RoundTo(n, MantBits)) ELSE SlotNumber(n)

\* luaL_checkinteger: the lua_Integer of the number in the slot
luaL_checkinteger(lua, slot) == Truncate(slot.n, WideBits, TRUE)

\* LuaValueType<T, LUA_VALUE>::push(L, value)
LuaValueTypePush(type, lua, value) ==
    CASE LuaValueOf(type) = "bool" -> SlotBoolean(value = 1)
      [] LuaValueOf(type) = "char" ->
            \* char str[] = { value, 0 }; lua_pushstring(L, str)
            SlotString(Bytes(<<value>>, strlen(<<value>>)))
      [] LuaValueOf(type) = "lua_Integer" ->
            lua_pushinteger(lua, Wrap(value, WideBits, TRUE))
      [] LuaValueOf(type) = "lua_Unsigned" ->
            \* lua_pushunsigned(L, static_cast<lua_Unsigned>(value)); in 5.3
            \* lua_pushinteger(L, (lua_Integer)(n))
            LET u == Wrap(value, UnsignedBits(lua), FALSE) IN
            IF lua = "5.2" THEN SlotNumber(u)
            ELSE lua_pushinteger(lua, Wrap(u, WideBits, TRUE))
      [] LuaValueOf(type) = "lua_Number" -> SlotNumber(RoundTo(value, MantBits))
      [] OTHER ->
            \* LuaUnsafeInt64Type: lua_Number f = static_cast<lua_Number>(value);
            \* LUAINTF_UNSAFE_INT64_CHECK is 0; lua_pushnumber(L, f)
            SlotNumber(RoundTo(value, MantBits))

\* LuaValueType<T, LUA_VALUE>::get(L, index): the values it can return
LuaValueTypeGet(type, lua, longbits, slot) ==
    CASE LuaValueOf(type) = "bool" -> {IF slot.t = "boolean" /\ slot.n = 1 THEN 1 ELSE 0}
      [] LuaValueOf(type) = "char" ->
            \* luaL_checkstring(L, index)[0]
            {IF slot.bytes = <<>> THEN 0 ELSE slot.bytes[1]}
      [] LuaValueOf(type) = "lua_Integer" ->
            {Wrap(n, Width(type, longbits), IsSigned(type)) : n \in luaL_checkinteger(lua, slot)}
      [] LuaValueOf(type) = "lua_Unsigned" ->
            \* luaL_checkunsigned: the number modulo 2^32 in 5.2,
            \* (lua_Unsigned)luaL_checkinteger in 5.3
            {Wrap(Wrap(n, UnsignedBits(lua), FALSE), Width(type, longbits), FALSE) :
                n \in IF lua = "5.2" THEN {slot.n} ELSE luaL_checkinteger(lua, slot)}
      [] LuaValueOf(type) = "lua_Number" -> {RoundTo(slot.n, Width(type, longbits))}
      [] OTHER -> Truncate(slot.n, WideBits, IsSigned(type))

\* native: Lua::push(L, v); Lua::get<T>(L, -1) for a scalar type
ScalarPushGet(type, lua, longbits, v, r) ==
    LET slot == LuaValueTypePush(type, lua, v) IN
    /\ call.op = "none"
    /\ v \in ValuesOf(type, longbits)
    /\ r \in LuaValueTypeGet(type, lua, longbits, slot)
    /\ call' = [op |-> "scalar", type |-> type, v |-> v, def |-> <<lua, longbits>>,
                slot |-> slot, out |-> ConvOk(r)]
    /\ UNCHANGED <<tables, decl, nmem, objs, statics, heap, last, refs>>

ConvDone ==
    /\ call.op # "none"
    /\ call' = NoConv
    /\ UNCHANGED <<tables, decl, nmem, objs, statics, heap, last, refs>>

NextConv ==
    \/ \E type \in StringTypes, v \in ByteStrings : StringPushGet(type, v)
    \/ \E type \in StringTypes, def \in ByteStrings,
          slot \in {SlotNone, SlotNil} \cup {SlotString(s) : s \in ByteStrings} :
            StringOpt(type, slot, def)
    \/ \E type \in ScalarTypes, lua \in LuaVersions, longbits \in LongWidths :
          \E v \in ValuesOf(type, longbits) :
            \E r \in LuaValueTypeGet(type, lua, longbits, LuaValueTypePush(type, lua, v)) :
                ScalarPushGet(type, lua, longbits, v, r)
    \/ ConvDone

SpecConv == InitConv /\ [][NextConv]_vars

IsConv(op) == call.op = op

\* C23: a std::string or LuaString pushed and read back has the same length
\* and bytes, embedded NUL bytes included, and opt on a slot that is absent
\* or nil returns the default with its full length
C23_StringsKeepLength ==
    /\ IsConv("pushget") /\ call.type \in StringTypes => call.out = ConvOk(call.v)
    /\ IsConv("opt") /\ call.slot.t \in {"none", "nil"} => call.out = ConvOk(call.def)

\* what holds of the code: push and get keep every byte, and so does the opt
\* of LuaString; the opt of std::string keeps the default up to its first NUL
C23_HoldsButStdStringDefault ==
    /\ IsConv("pushget") /\ call.type \in StringTypes => call.out = ConvOk(call.v)
    /\ IsConv("opt") /\ call.slot.t \in {"none", "nil"} =>
          call.out = ConvOk(IF call.type = "LuaString" THEN call.def
                            ELSE Bytes(call.def, strlen(call.def)))
    /\ IsConv("opt") /\ call.slot.t = "string" => call.out = ConvOk(call.slot.bytes)

\* a string with an embedded NUL went through push and get
C23_WitnessRoundTrip ==
    /\ IsConv("pushget")
    /\ strlen(call.v) < Len(call.v) - 1
    /\ call.out = ConvOk(call.v)

\* a std::string default with an embedded NUL came back cut
C23_WitnessCut ==
    /\ IsConv("opt") /\ call.type = "std::string" /\ call.slot.t = "nil"
    /\ call.def = <<1, 0, 1>>
    /\ call.out = ConvOk(<<1>>)

\* C24: for every scalar type and every value of it, get of the slot that
\* push made returns the value
C24_ScalarRoundTrip == IsConv("scalar") => call.out = ConvOk(call.v)

\* the bits of a number the slot carries for a type
CarriedBits(type, lua) ==
    CASE LuaValueOf(type) = "lua_Integer" -> IF lua = "5.2" THEN MantBits ELSE WideBits
      [] LuaValueOf(type) = "lua_Unsigned" -> UnsignedBits(lua)
      [] OTHER -> MantBits

\* what holds of the code: the round trip is exact for bool, char and every
\* type that is no wider than what carries it
C24_HoldsWithinCarrier ==
    IsConv("scalar") /\ Width(call.type, call.def[2]) <= CarriedBits(call.type, call.def[1])
        => call.out = ConvOk(call.v)

\* a long long beyond the mantissa of lua_Number came back changed
C24_WitnessLongLong ==
    /\ IsConv("scalar") /\ call.type = "long long"
    /\ call.v = Pow2(MantBits) + 1
    /\ call.out = ConvOk(Pow2(MantBits))

\* an int came back as it was pushed
C24_WitnessInt ==
    /\ IsConv("scalar") /\ call.type = "int" /\ call.v = 0 - Pow2(IntBits - 1)
    /\ call.out = ConvOk(call.v)

(***************************************************************************)
(* The height of the VM stack across the operations of LuaRef,             *)
(* LuaTableReference and LuaTableIterator (LuaRef.h) and across            *)
(* CppObject::getObject / getExactObject.  An operation is the sequence of *)
(* the VM calls it makes; a VM call removes pop slots from the top of the  *)
(* stack and then adds push slots.                                         *)
(* call = [of, op, before, top, ok]: the class and the operation that ran, *)
(* the height it found and the height it left, whether it returned         *)
(* normally.                                                               *)
(***************************************************************************)
\* the stack holds up to MaxStack slots
MaxStack == 3

Replaces(pop, push) == [pop |-> pop, push |-> push]
\* lua_rawgeti, lua_pushvalue, lua_pushnil, lua_pushcfunction, Lua::push, ...
Pushes(n) == Replaces(0, n)
\* lua_pop, lua_remove, luaL_ref, lua_settable (2), Lua::pop<V> (1), ...
Pops(n) == Replaces(n, 0)

RECURSIVE RunSteps(_, _)
\* the height after the steps, from height h; -1 when a step finds fewer
\* slots than it removes
RunSteps(steps, h) ==
    IF steps = <<>> \/ h < 0 THEN h
    ELSE IF h < Head(steps).pop THEN -1
    ELSE RunSteps(Tail(steps), h - Head(steps).pop + Head(steps).push)

\* pushToStack: lua_rawgeti(L, LUA_REGISTRYINDEX, m_ref)
PushToStackSteps == <<Pushes(1)>>
\* popFromStack: luaL_ref(L, LUA_REGISTRYINDEX)
PopFromStackSteps == <<Pops(1)>>

\* LuaTableIterator::next: the table, the key, lua_next, the two luaL_ref
\* when there is a next entry, lua_pop(L, 1)
NextSteps(more) ==
    <<Pushes(1), Pushes(1)>>
    \o (IF more THEN <<Replaces(1, 2), Pops(1), Pops(1)>> ELSE <<Replaces(1, 0)>>)
    \o <<Pops(1)>>

\* the operations of LuaTableReference, by the VM calls they make
LuaTableReferenceSteps(op) ==
    CASE op = "copy" -> <<Pushes(1), Pops(1)>>
      [] op = "move" -> <<>>
      [] op = "destroy" -> <<>>
      [] op = "operator=(that)" ->
            \* four lua_rawgeti, lua_gettable(L, -4), lua_settable(L, -3), lua_pop(L, 2)
            <<Pushes(1), Pushes(1), Pushes(1), Pushes(1), Replaces(1, 1), Pops(2), Pops(2)>>
      [] op = "operator=(value)" ->
            \* two lua_rawgeti, Lua::push, lua_settable(L, -3), lua_pop(L, 1)
            <<Pushes(1), Pushes(1), Pushes(1), Pops(2), Pops(1)>>
      [] op = "value" ->
            \* two lua_rawgeti, lua_gettable(L, -2), Lua::pop<V>(L)
            <<Pushes(1), Pushes(1), Replaces(1, 1), Pops(1)>>

LuaTableReferenceOps ==
    {"copy", "move", "destroy", "operator=(that)", "operator=(value)", "value"}

\* the operations of LuaTableIterator, by the VM calls they make
LuaTableIteratorSteps(op) ==
    CASE op = "LuaTableIterator(fetch_next), more" -> NextSteps(TRUE)
      [] op = "LuaTableIterator(fetch_next), no more" -> NextSteps(FALSE)
      [] op = "LuaTableIterator()" -> <<>>
      [] op = "copy" -> <<Pushes(1), Pops(1), Pushes(1), Pops(1)>>
      [] op = "move" -> <<>>
      [] op = "destroy" -> <<>>
      [] op = "operator++, more" -> NextSteps(TRUE)
      [] op = "operator++, no more" -> NextSteps(FALSE)
      [] op = "operator=(that)" -> <<Pushes(1), Pops(1), Pushes(1), Pops(1)>>
      [] op = "operator=(move)" -> <<>>
      [] op = "operator==, same key handle" -> <<>>
      [] op = "operator==, other table" -> <<>>
      [] op = "operator==, keys compared" ->
            \* two lua_rawgeti, lua_rawequal, lua_pop(L, 2)
            <<Pushes(1), Pushes(1), Replaces(0, 0), Pops(2)>>
      [] op = "key" -> <<Pushes(1), Pops(1)>>
      [] op = "value" -> <<Pushes(1), Pops(1)>>

LuaTableIteratorOps ==
    {"LuaTableIterator(fetch_next), more", "LuaTableIterator(fetch_next), no more",
     "LuaTableIterator()", "copy", "move", "destroy", "operator++, more",
     "operator++, no more", "operator=(that)", "operator=(move)",
     "operator==, same key handle", "operator==, other table",
     "operator==, keys compared", "key", "value"}

\* the operations of LuaRef on np arguments and nr results, by the VM calls
\* they make
LuaRefSteps(op, np, nr) ==
    CASE op = "createFunctionWithArgs" ->
            \* pushArg, lua_pushcclosure(L, proc, sizeof...(P)), popFromStack
            <<Pushes(np), Replaces(np, 1)>> \o PopFromStackSteps
      [] op \in {"createFunctionWithNewData", "createFunctionWithPtr"} ->
            <<Pushes(1), Replaces(1, 1)>> \o PopFromStackSteps
      [] op = "pcall" ->
            \* lua_pushcfunction, lua_insert, lua_pcall(L, nargs, nresult, ..),
            \* lua_remove(L, -(nresult + 1))
            <<Pushes(1), Replaces(0, 0), Replaces(np + 1, nr), Pops(1)>>
      [] op \in {"createTable", "globals", "fromValue", "fromPointer"} ->
            <<Pushes(1)>> \o PopFromStackSteps
      [] op \in {"registry", "LuaRef(L, index)", "copy", "operator=(that)"} ->
            \* lua_pushvalue or lua_rawgeti, luaL_ref
            <<Pushes(1), Pops(1)>>
      [] op \in {"destroy", "operator=(move)", "state", "isValid", "end"} -> <<>>
      [] op \in {"type", "typeName", "checkType", "toPointer", "rawlen", "len"} ->
            PushToStackSteps \o <<Pops(1)>>
      [] op = "toValue" -> PushToStackSteps \o <<Pops(1)>>
      [] op \in {"isIdenticalTo", "compareTo", "operator==", "operator<", "operator<="} ->
            PushToStackSteps \o PushToStackSteps \o <<Replaces(0, 0), Pops(2)>>
      [] op = "call<void>" ->
            \* lua_pushcfunction, pushToStack, pushArg, lua_pcall(L, n, 0, ..), lua_pop(L, 1)
            <<Pushes(1)>> \o PushToStackSteps \o <<Pushes(np), Replaces(np + 1, 0), Pops(1)>>
      [] op = "call<R>" ->
            <<Pushes(1)>> \o PushToStackSteps \o <<Pushes(np), Replaces(np + 1, 1), Pops(2)>>
      [] op = "call<R...>" ->
            <<Pushes(1)>> \o PushToStackSteps
            \o <<Pushes(np), Replaces(np + 1, nr), Pops(nr + 1)>>
      [] op = "getMetaTable, some" ->
            \* pushToStack, lua_getmetatable, popFromStack, lua_pop(L, 1)
            PushToStackSteps \o <<Pushes(1)>> \o PopFromStackSteps \o <<Pops(1)>>
      [] op = "getMetaTable, none" -> PushToStackSteps \o <<Pushes(0), Pops(1)>>
      [] op = "setMetaTable" ->
            PushToStackSteps \o PushToStackSteps \o <<Pops(1), Pops(1)>>
      [] op \in {"rawget", "has", "get"} ->
            \* pushToStack, Lua::push(key), lua_rawget or lua_gettable, lua_pop(L, 2)
            PushToStackSteps \o <<Pushes(1), Replaces(1, 1), Pops(2)>>
      [] op \in {"rawset", "set", "remove"} ->
            \* pushToStack, the key, the value or nil, lua_rawset or lua_settable,
            \* lua_pop(L, 1)
            PushToStackSteps \o <<Pushes(1), Pushes(1), Pops(2), Pops(1)>>
      [] op \in {"rawgetp", "rawgeti"} -> PushToStackSteps \o <<Pushes(1), Pops(2)>>
      [] op \in {"rawsetp", "rawseti"} ->
            PushToStackSteps \o <<Pushes(1), Pops(1), Pops(1)>>
      [] op = "operator[]" -> <<Pushes(1), Pops(1)>>
      [] op = "begin, more" -> NextSteps(TRUE)
      [] op = "begin, no more" -> NextSteps(FALSE)
      [] op = "pushToStack" -> PushToStackSteps
      [] op = "popFromStack" -> PopFromStackSteps

LuaRefOps ==
    {"createFunctionWithArgs", "createFunctionWithNewData", "createFunctionWithPtr",
     "pcall", "createTable", "globals", "fromValue", "fromPointer", "registry",
     "LuaRef(L, index)", "copy", "operator=(that)", "destroy", "operator=(move)",
     "state", "isValid", "end", "type", "typeName", "checkType", "toPointer", "rawlen",
     "len", "toValue", "isIdenticalTo", "compareTo", "operator==", "operator<",
     "operator<=", "call<void>", "call<R>", "call<R...>", "getMetaTable, some",
     "getMetaTable, none", "setMetaTable", "rawget", "has", "get", "rawset", "set",
     "remove", "rawgetp", "rawgeti", "rawsetp", "rawseti", "operator[]", "begin, more",
     "begin, no more", "pushToStack", "popFromStack"}

NoStack == [of |-> "", op |-> "none", before |-> 0, top |-> 0, ok |-> TRUE]

InitStack ==
    /\ tables = extend(bind(InitTables, Module, "A", "A").tb, Module, "B", "B",
                       staticID("A")).tb
    /\ decl = DeclareClass(DeclareClass(<<>>, "A", ""), "B", "A")
    /\ nmem = 0
    /\ objs = InitObjs
    /\ statics = InitStatics
    /\ heap = <<>>
    /\ last = NoOp
    /\ call = NoStack
    /\ refs = NoRefs

\* an operation ran its steps on the stack and returned
Ran(of, op, steps) ==
    LET top == RunSteps(steps, call.top) IN
    /\ top \in 0..MaxStack
    /\ call' = [of |-> of, op |-> op, before |-> call.top, top |-> top, ok |-> TRUE]
    /\ UNCHANGED <<tables, decl, nmem, objs, statics, heap, last, refs>>

StackLuaRef(op, np, nr) ==
    /\ op \in {"createFunctionWithArgs", "pcall", "call<void>", "call<R>", "call<R...>"}
          \/ np = 0
    /\ op \in {"pcall", "call<R...>"} \/ nr = 0
    \* pcall finds the function and its arguments on the stack
    /\ op = "pcall" => call.top >= np + 1
    /\ Ran("LuaRef", op, LuaRefSteps(op, np, nr))

StackTableReference(op) == Ran("LuaTableReference", op, LuaTableReferenceSteps(op))

StackTableIterator(op) == Ran("LuaTableIterator", op, LuaTableIteratorSteps(op))

\* the values a native function can find in the slot it asks an object from
StackSlots == PushedPointers(tables) \cup {BareUserdata, Lud("pointer", ""), Num(0)}

\* CppObject::getObject or getExactObject on the top slot, below which the
\* stack holds what it held
StackGetObject(v, T, is_const, exact) ==
    LET stack == [i \in 1..call.top |-> Nil] \o <<v>>
        r == IF exact THEN getExactObject(tables, stack, Len(stack), getClassID(T, is_const))
             ELSE getObject(tables, stack, Len(stack), getClassID(T, is_const), is_const)
    IN  /\ call.top < MaxStack
        /\ r.st \in {"ok", "error"}
        /\ call' = [of |-> "CppObject",
                    op |-> IF exact THEN "getExactObject" ELSE "getObject",
                    before |-> Len(stack),
                    top |-> IF r.st = "ok" THEN r.sp ELSE Len(stack),
                    ok |-> r.st = "ok"]
        /\ UNCHANGED <<tables, decl, nmem, objs, statics, heap, last, refs>>

NextStack ==
    \/ \E op \in LuaRefOps, np \in 0..MaxParams, nr \in 0..MaxParams : StackLuaRef(op, np, nr)
    \/ \E op \in LuaTableReferenceOps : StackTableReference(op)
    \/ \E op \in LuaTableIteratorOps : StackTableIterator(op)
    \/ \E v \in StackSlots, T \in {"A", "B"}, is_const \in BOOLEAN, exact \in BOOLEAN :
          StackGetObject(v, T, is_const, exact)

SpecStack == InitStack /\ [][NextStack]_vars

RefClasses == {"LuaRef", "LuaTableReference", "LuaTableIterator"}

\* what an operation is meant to do to the height
MeantHeight(of, op, before) ==
    IF of = "LuaRef" /\ op = "pushToStack" THEN before + 1
    ELSE IF of = "LuaRef" /\ op = "popFromStack" THEN before - 1
    ELSE before

\* C21: every operation of LuaRef, LuaTableReference and LuaTableIterator
\* that returns normally leaves the stack as high as it found it (pushToStack
\* adds one slot, popFromStack removes one), and so does a successful
\* getObject or getExactObject
C21_StackHeightKept ==
    call.op # "none" /\ call.ok => call.top = MeantHeight(call.of, call.op, call.before)

\* what holds of the code: the same, but that LuaTableReference::value leaves
\* the table on the stack and that the static LuaRef::pcall replaces the
\* function and its arguments by the results
C21_HoldsButValueAndPcall ==
    /\ call.op # "none" /\ call.ok
       /\ ~(call.of = "LuaTableReference" /\ call.op = "value")
       /\ ~(call.of = "LuaRef" /\ call.op = "pcall")
          => call.top = MeantHeight(call.of, call.op, call.before)
    /\ call.of = "LuaTableReference" /\ call.op = "value" => call.top = call.before + 1

\* LuaTableReference::value returned with one more slot on the stack
C21_WitnessValue ==
    /\ call.of = "LuaTableReference" /\ call.op = "value"
    /\ call.ok /\ call.top = call.before + 1

\* an object was found by getObject below other slots, with the stack
\* as high as before
C21_WitnessGetObject ==
    /\ call.of = "CppObject" /\ call.op = "getObject" /\ call.ok
    /\ call.before > 1 /\ call.top = call.before

\* a function was called through LuaRef with arguments and results
C21_WitnessCall ==
    /\ call.of = "LuaRef" /\ call.op = "call<R...>" /\ call.ok
    /\ call.before > 0 /\ call.top = call.before

(***************************************************************************)
(* LuaTableIterator (LuaRef.h): an iterator over the table of a LuaRef.    *)
(* It holds the table handle of the LuaRef (m_table) and a handle of its   *)
(* own on the current key and on the current value.                        *)
(* refs is the registry, with the one LuaRef on the table in refs.ref[1].  *)
(* call = [n, its, op, twice, moved, broken]:                              *)
(*   n       the number of entries of the table                            *)
(*   its     the iterators native code has made: L (non-null), m_table,    *)
(*           m_key, m_value, live (not destroyed)                          *)
(*   twice   ghost: luaL_unref ran on a handle that was already released   *)
(*   moved   ghost: an iterator was move constructed                       *)
(*   broken  lua_next was run on something that is not the table, or with  *)
(*           a key the table does not have                                 *)
(***************************************************************************)
\* the table has up to MaxEntries entries; native code makes up to MaxIters
\* iterators
MaxEntries == 2
MaxIters == 2

TheTable == Tbl("plain", "")
EntryKey(i) == [Str("k") EXCEPT !.n = i]
EntryValue(i) == [Str("v") EXCEPT !.n = i]

\* lua_next(L, -2) on the table of n entries and a key: the entry after the
\* key, the first one for nil
lua_next(n, tbl, key) ==
    IF tbl # TheTable THEN [st |-> "ub", i |-> 0]
    ELSE IF IsNil(key) THEN [st |-> IF n >= 1 THEN "more" ELSE "done", i |-> 1]
    ELSE IF \E i \in 1..n : key = EntryKey(i)
    THEN LET i == CHOOSE j \in 1..n : key = EntryKey(j) IN
         [st |-> IF i < n THEN "more" ELSE "done", i |-> i + 1]
    ELSE [st |-> "error", i |-> 0]

Iterator(L, m_table, m_key, m_value) ==
    [L |-> L, m_table |-> m_table, m_key |-> m_key, m_value |-> m_value, live |-> TRUE]

IterResult(R, it, st, twice) == [R |-> R, it |-> it, st |-> st, twice |-> twice]

\* luaL_unref(L, LUA_REGISTRYINDEX, m_key); luaL_unref(L, LUA_REGISTRYINDEX, m_value)
\* and (ghost) whether one of them had been released before
ReleaseBoth(R, m_key, m_value) ==
    LET R1 == luaL_unref(R, m_key) IN
    [R |-> luaL_unref(R1, m_value),
     twice |-> (m_key >= 0 /\ m_key \in R.freed) \/ (m_value >= 0 /\ m_value \in R1.freed)]

\* LuaTableIterator::next
IterNext(R, n, it) ==
    LET tbl == lua_rawgeti(R, it.m_table)
        key == lua_rawgeti(R, it.m_key)
        rel == ReleaseBoth(R, it.m_key, it.m_value)
        nx == lua_next(n, tbl, key)
    IN  IF nx.st = "more"
        THEN LET a == luaL_ref(rel.R, EntryValue(nx.i))
                 b == luaL_ref(a.R, EntryKey(nx.i))
             IN IterResult(b.R, [it EXCEPT !.m_value = a.r, !.m_key = b.r], "ok", rel.twice)
        ELSE IterResult(rel.R, [it EXCEPT !.m_value = LUA_NOREF, !.m_key = LUA_NOREF],
                        IF nx.st = "done" THEN "ok" ELSE nx.st, rel.twice)

\* LuaTableIterator(lua_State* state, int table, bool fetch_next)
IterNew(R, n, table, fetch_next) ==
    LET it == Iterator(TRUE, table, LUA_NOREF, LUA_NOREF) IN
    IF fetch_next THEN IterNext(R, n, it) ELSE IterResult(R, it, "ok", FALSE)

\* LuaTableIterator(const LuaTableIterator& that)
IterCopy(R, that) ==
    LET a == luaL_ref(R, lua_rawgeti(R, that.m_key))
        b == luaL_ref(a.R, lua_rawgeti(a.R, that.m_value))
    IN  IterResult(b.R, Iterator(that.L, that.m_table, a.r, b.r), "ok", FALSE)

\* LuaTableIterator(LuaTableIterator&& that): m_value(that.m_table)
IterMove(that) == Iterator(that.L, that.m_table, that.m_key, that.m_table)

\* what the move constructor leaves in that
IterMovedFrom(that) == [that EXCEPT !.m_key = LUA_NOREF, !.m_value = LUA_NOREF]

\* ~LuaTableIterator()
IterDestroy(R, it) ==
    LET rel == IF it.L THEN ReleaseBoth(R, it.m_key, it.m_value)
               ELSE [R |-> R, twice |-> FALSE]
    IN  IterResult(rel.R, [it EXCEPT !.live = FALSE], "ok", rel.twice)

\* LuaTableIterator& operator = (const LuaTableIterator& that)
IterAssign(R, this, that) ==
    LET rel == IF this.L THEN ReleaseBoth(R, this.m_key, this.m_value)
               ELSE [R |-> R, twice |-> FALSE]
        a == luaL_ref(rel.R, lua_rawgeti(rel.R, that.m_key))
        b == luaL_ref(a.R, lua_rawgeti(a.R, that.m_value))
    IN  IterResult(b.R, [this EXCEPT !.L = that.L, !.m_table = that.m_table,
                                     !.m_key = a.r, !.m_value = b.r], "ok", rel.twice)

\* bool operator == (const LuaTableIterator& that) const
IterEqual(R, this, that) ==
    IF this.L # that.L \/ this.m_table # that.m_table THEN FALSE
    ELSE IF this.m_key = that.m_key THEN TRUE
    ELSE lua_rawgeti(R, this.m_key) = lua_rawgeti(R, that.m_key)

\* K key() const and V value() const
IterKey(R, it) == lua_rawgeti(R, it.m_key)
IterValue(R, it) == lua_rawgeti(R, it.m_value)

\* the handle of the LuaRef on the table
TableHandle == refs.ref[1].m_ref

InitIter ==
    /\ tables = InitTables
    /\ decl = <<>>
    /\ nmem = 0
    /\ objs = InitObjs
    /\ statics = InitStatics
    /\ heap = <<>>
    /\ last = NoOp
    /\ \E n \in 0..MaxEntries :
          call = [n |-> n, its |-> <<>>, op |-> "none", twice |-> FALSE, moved |-> FALSE,
                  broken |-> FALSE]
    /\ refs = LuaRefFromStack(NoRefs, TheTable)

LiveIters == {k \in DOMAIN call.its : call.its[k].live}

\* an operation made the iterator it, or changed the k-th into it
IterStep(op, res, its) ==
    /\ refs' = res.R
    /\ call' = [call EXCEPT !.its = its, !.op = op, !.twice = @ \/ res.twice,
                            !.broken = res.st # "ok"]
    /\ UNCHANGED <<tables, decl, nmem, objs, statics, heap, last>>

\* native: t.begin() or t.end(), the iterator constructed in place
IterConstruct(fetch_next) ==
    LET res == IterNew(refs, call.n, TableHandle, fetch_next) IN
    /\ ~call.broken
    /\ Len(call.its) < MaxIters
    /\ IterStep(IF fetch_next THEN "begin" ELSE "end", res, Append(call.its, res.it))

\* native: LuaTableIterator b(a)
IterCopyConstruct(that) ==
    LET res == IterCopy(refs, call.its[that]) IN
    /\ ~call.broken
    /\ Len(call.its) < MaxIters
    /\ IterStep("copy", res, Append(call.its, res.it))

\* native: LuaTableIterator b(std::move(a))
IterMoveConstruct(that) ==
    /\ ~call.broken
    /\ Len(call.its) < MaxIters
    /\ refs' = refs
    /\ call' = [call EXCEPT !.its = Append([@ EXCEPT ![that] = IterMovedFrom(@)],
                                           IterMove(call.its[that])),
                            !.op = "move", !.moved = TRUE]
    /\ UNCHANGED <<tables, decl, nmem, objs, statics, heap, last>>

\* native: a = std::move(b): the four fields are swapped
IterMoveAssign(this, that) ==
    /\ ~call.broken
    /\ this # that
    /\ refs' = refs
    /\ call' = [call EXCEPT !.its[this] = call.its[that], !.its[that] = call.its[this],
                            !.op = "moveassign"]
    /\ UNCHANGED <<tables, decl, nmem, objs, statics, heap, last>>

\* native: a = b, for two iterators
IterCopyAssign(this, that) ==
    LET res == IterAssign(refs, call.its[this], call.its[that]) IN
    /\ ~call.broken
    /\ this # that
    /\ IterStep("assign", res, [call.its EXCEPT ![this] = res.it])

\* native: ++a
IterAdvance(this) ==
    LET res == IterNext(refs, call.n, call.its[this]) IN
    /\ ~call.broken
    /\ IterStep("advance", res, [call.its EXCEPT ![this] = res.it])

\* native: the iterator goes out of scope
IterDestruct(this) ==
    LET res == IterDestroy(refs, call.its[this]) IN
    /\ ~call.broken
    /\ IterStep("destroy", res, [call.its EXCEPT ![this] = res.it])

NextIter ==
    \/ \E fetch_next \in BOOLEAN : IterConstruct(fetch_next)
    \/ \E that \in LiveIters : IterCopyConstruct(that)
    \/ \E that \in LiveIters : IterMoveConstruct(that)
    \/ \E this \in LiveIters, that \in LiveIters : IterMoveAssign(this, that)
    \/ \E this \in LiveIters, that \in LiveIters : IterCopyAssign(this, that)
    \/ \E this \in LiveIters : IterAdvance(this)
    \/ \E this \in LiveIters : IterDestruct(this)

SpecIter == InitIter /\ [][NextIter]_vars

\* the handles the iterators in scope have on keys and values
IterHandles ==
    {call.its[k].m_key : k \in LiveIters} \cup {call.its[k].m_value : k \in LiveIters}

\* the table handle was not released and the LuaRef still gives the table; no
\* handle was released twice; the handles acquired and not released are the
\* table handle and those of the iterators in scope
TableHandleKept ==
    /\ TableHandle \notin refs.freed
    /\ lua_rawgeti(refs, TableHandle) = TheTable
    /\ ~call.twice
    /\ HeldHandles \ {TableHandle} = {h \in IterHandles : h >= 0} \ {TableHandle}

\* C29: after any sequence of iterator construction, copy, move construction,
\* move assignment, advance and destruction the LuaRef still refers to its
\* table (no iterator releases the table handle), and every key and value
\* handle the iterators acquired is released exactly once
C29_TableHandleKept == TableHandleKept

\* what holds of the code: the same as long as no iterator is move constructed
C29_HoldsWithoutMoveConstruction == ~call.moved => TableHandleKept

\* a move constructed iterator was destroyed and took the table handle with it
C29_WitnessReleased ==
    /\ call.op = "destroy" /\ call.moved
    /\ TableHandle \in refs.freed

\* iterators were made, copied and advanced, all are gone, and only the table
\* handle is left
C29_WitnessAllReleased ==
    /\ call.op = "destroy" /\ ~call.moved
    /\ Len(call.its) = MaxIters /\ LiveIters = {}
    /\ refs.freed # {}
    /\ HeldHandles = {TableHandle}

(***************************************************************************)
(* The loop                                                                *)
(*   for (LuaTableIterator it = t.begin(); it != t.end(); ++it)            *)
(*       visit(it.key<K>(), it.value<V>());                                *)
(* over a table that nothing modifies.  begin() returns its iterator by    *)
(* value (return LuaTableIterator(L, m_ref, true)): the build either       *)
(* constructs it in place (copy elision, which C++11 permits and C++17     *)
(* requires) or move constructs it from the temporary.                     *)
(* call = [n, elide, pc, it, seen, steps]: the number of entries, the      *)
(* choice of the build, where the loop is, the iterator, the pairs visited *)
(* and the number of ++ made.                                              *)
(***************************************************************************)
\* the registry holds up to MaxPre other handles, and up to MaxPre released
\* ones, when the loop starts
MaxPre == 2

LoopSizes == 0..(MaxEntries + 1)

RECURSIVE Released(_, _)
\* the registry after k more values were registered and, last first, released
Released(R, k) ==
    IF k = 0 THEN R
    ELSE LET a == luaL_ref(R, Str("a")) IN luaL_unref(Released(a.R, k - 1), a.r)

RECURSIVE Occupied(_, _)
\* the registry after k more values were registered
Occupied(R, k) == IF k = 0 THEN R ELSE Occupied(luaL_ref(R, Str("b")).R, k - 1)

InitLoop ==
    /\ tables = InitTables
    /\ decl = <<>>
    /\ nmem = 0
    /\ objs = InitObjs
    /\ statics = InitStatics
    /\ heap = <<>>
    /\ last = NoOp
    /\ \E n \in LoopSizes, elide \in BOOLEAN :
          call = [n |-> n, elide |-> elide, pc |-> "start",
                  it |-> Iterator(FALSE, LUA_NOREF, LUA_NOREF, LUA_NOREF),
                  seen |-> <<>>, steps |-> 0]
    /\ \E h \in 0..MaxPre, k \in 0..MaxPre :
          refs = Released(Occupied(LuaRefFromStack(NoRefs, TheTable), h), k)

LoopStep(R, pc, it, seen, steps) ==
    /\ refs' = R
    /\ call' = [call EXCEPT !.pc = pc, !.it = it, !.seen = seen, !.steps = steps]
    /\ UNCHANGED <<tables, decl, nmem, objs, statics, heap, last>>

\* LuaRef::begin(): LuaTableIterator(L, m_ref, true), returned by value
LoopBegin ==
    LET res == IterNew(refs, call.n, TableHandle, TRUE)
        \* the temporary is moved from, then destroyed
        gone == IterDestroy(res.R, IterMovedFrom(res.it))
    IN  /\ call.pc = "start"
        /\ IF call.elide THEN LoopStep(res.R, "test", res.it, <<>>, 0)
           ELSE LoopStep(gone.R, "test", IterMove(res.it), <<>>, 0)

\* LuaRef::end(): LuaTableIterator(L, m_ref, false)
LoopEnd == IterNew(refs, call.n, TableHandle, FALSE).it

\* it != t.end()
LoopTest ==
    /\ call.pc = "test"
    /\ LoopStep(refs, IF IterEqual(refs, call.it, LoopEnd) THEN "done" ELSE "body",
                call.it, call.seen, call.steps)

\* visit(it.key<K>(), it.value<V>())
LoopVisit ==
    /\ call.pc = "body"
    /\ LoopStep(refs, "inc", call.it,
                Append(call.seen, <<IterKey(refs, call.it), IterValue(refs, call.it)>>),
                call.steps)

\* ++it
LoopAdvance ==
    LET res == IterNext(refs, call.n, call.it) IN
    /\ call.pc = "inc"
    /\ LoopStep(res.R, IF res.st = "ok" THEN "test" ELSE "broken", res.it, call.seen,
                call.steps + 1)

NextLoop ==
    \/ LoopBegin
    \/ LoopTest
    \/ LoopVisit
    \/ LoopAdvance

SpecLoop == InitLoop /\ [][NextLoop]_vars

\* the pairs of the first k entries, in the order of lua_next
Entries(k) == [i \in 1..k |-> <<EntryKey(i), EntryValue(i)>>]

\* the loop has presented the entries it has passed, each once; the iterator
\* is equal to end() exactly when it has passed them all; lua_next never
\* fails; the loop is over after as many steps as the table has entries
IterationExact ==
    /\ call.pc # "broken"
    /\ call.pc \in {"test", "done"} => call.seen = Entries(call.steps)
    /\ call.pc = "test" => (IterEqual(refs, call.it, LoopEnd) <=> call.steps = call.n)
    /\ call.pc = "done" => call.steps = call.n
    /\ call.steps <= call.n

\* C30: the loop from begin() with ++ until the iterator is equal to end(),
\* over a table that is not modified, ends after as many steps as the table
\* has entries and presents every pair once; the iterator is equal to end()
\* exactly when it has passed the last entry (at once for an empty table)
C30_IterationExact == IterationExact

\* what holds of the code: the same when begin() constructs its result in place
C30_HoldsConstructedInPlace == call.elide => IterationExact

\* the loop over the largest table is over, after as many steps as entries
C30_WitnessDone ==
    /\ call.pc = "done" /\ call.elide
    /\ call.n = MaxEntries + 1 /\ call.steps = call.n
    /\ call.seen = Entries(call.n)

\* the loop over an empty table is over at once
C30_WitnessEmpty ==
    /\ call.pc = "done" /\ call.elide /\ call.n = 0 /\ call.steps = 0

\* the move constructed iterator presented the table as the first value
C30_WitnessTableAsValue ==
    /\ ~call.elide /\ call.seen # <<>>
    /\ call.seen[1] = <<EntryKey(1), TheTable>>

=============================================================================
